---- MODULE Spec2Model ----
(***************************************************************************)
(* Verification model of the bonus-malus (CRM) assistant.                  *)
(*                                                                         *)
(* Two parts of src/assistant.py are modelled:                             *)
(*   - calculate_crm_update, the executable freshness check of a releve    *)
(*     d'information (RI) against the wall clock;                          *)
(*   - the CRM rule set that query_gemini_with_history embeds in its       *)
(*     prompt (majorations, annual reduction, range, rapid descent,        *)
(*     franchise, termination cases), arranged as the period-by-period     *)
(*     engine of the specification.                                        *)
(*                                                                         *)
(* Coefficients are integers in thousandths (1.00 = 1000) so that a value  *)
(* with three decimals such as 1.125 is representable and the rounding to  *)
(* two decimals is an operation of the model, not of the representation.   *)
(* Engine dates are month indexes; the freshness check works on calendar   *)
(* days, as the code does.                                                 *)
(***************************************************************************)
EXTENDS Integers, Sequences, FiniteSets, TLC

VARIABLES
    \* ---- freshness check (calculate_crm_update) ----
    now,            \* the wall clock read by datetime.now(): [day, hour]
    calls,          \* log of the calls made so far, oldest first
    \* ---- CRM engine ----
    history,        \* the caller-supplied InsuranceHistory (raw records)
    referenceDate,  \* the caller-supplied reference date (month index)
    reading,        \* the rules the invocation reads where two are given
    pc,             \* position of the invocation in the pipeline
    recIdx,         \* index of the record being walked
    queue,          \* assessment periods of that record still to process
    state,          \* the current CoefficientState
    starts,         \* the CoefficientState each processed period started from
    done,           \* the AssessmentPeriods processed so far, in order
    trace,          \* the append-only trace of CoefficientState
    result,         \* the EngineResult or the typed error
    \* ---- the Streamlit application ----
    session_state,  \* st.session_state: each key missing or holding a value
    users,          \* the accounts of the Firebase directory
    environ,        \* os.environ["AUTHORIZED_EMAILS"]
    opCount,        \* interactions handled so far
    mainpc,         \* position of the script thread
    uploaded_files, \* the files of the uploader being processed
    workers,        \* the executor's threads, one per uploaded file
    prompted,       \* the arguments of the last query_gemini_with_history
    last_call       \* the last call made by the script, with its arguments

staleVars  == <<now, calls>>
engineVars == <<history, referenceDate, reading, pc, recIdx, queue, state,
                starts, done, trace, result>>
appVars == <<session_state, users, environ, opCount, mainpc, uploaded_files,
             workers, prompted, last_call>>
vars == <<now, calls, history, referenceDate, reading, pc, recIdx, queue, state,
          starts, done, trace, result, session_state, users, environ, opCount, mainpc,
          uploaded_files, workers, prompted, last_call>>

\* Optional values: None, or Some(v) holding v.
None == <<>>
Some(v) == <<v>>
Get(o) == o[1]
NoError == "NoError"

Min(a, b) == IF a <= b THEN a ELSE b
Max(a, b) == IF a >= b THEN a ELSE b

(***************************************************************************)
(* Calendar arithmetic of datetime (proleptic Gregorian ordinal).          *)
(***************************************************************************)
IsLeap(y) == (y % 4 = 0) /\ ((y % 100 # 0) \/ (y % 400 = 0))

DaysInMonth(y, m) ==
    IF m = 2 THEN (IF IsLeap(y) THEN 29 ELSE 28)
    ELSE IF m \in {4, 6, 9, 11} THEN 30 ELSE 31

RECURSIVE DaysBeforeMonth(_, _)
DaysBeforeMonth(y, m) ==
    IF m <= 1 THEN 0 ELSE DaysBeforeMonth(y, m - 1) + DaysInMonth(y, m - 1)

DaysBeforeYear(y) ==
    (y - 1) * 365 + ((y - 1) \div 4) - ((y - 1) \div 100) + ((y - 1) \div 400)

\* datetime.toordinal of the date d/m/y.
ToOrdinal(dt) == DaysBeforeYear(dt.y) + DaysBeforeMonth(dt.y, dt.m) + dt.d

\* datetime.strptime(ri_date, "%d/%m/%Y"): the fields of the text, accepted
\* only when they name a day of the calendar; otherwise ValueError.
Strptime(txt) ==
    IF /\ txt.m \in 1..12
       /\ txt.y \in 1..9999
       /\ txt.d \in 1..DaysInMonth(txt.y, txt.m)
    THEN [ok |-> TRUE, d |-> txt.d, m |-> txt.m, y |-> txt.y]
    ELSE [ok |-> FALSE, d |-> 0, m |-> 0, y |-> 0]

\* (today - ri_date).days: timedelta normalises to whole days rounded down,
\* ri_date being at 00:00 of its day.
DeltaDays(clock, dt) ==
    ((clock.day * 24 + clock.hour) - ToOrdinal(dt) * 24) \div 24

StaleLimitDays == 90

\* The mutant of the comparison: a RI of exactly 90 days reported out of date.
calculate_crm_update_ge(clock, ri_date, crm_value) ==
    LET dt == Strptime(ri_date) IN
    IF ~dt.ok THEN [status |-> "ValueError", crm |-> 0, date |-> <<0, 0, 0>>]
    ELSE IF DeltaDays(clock, dt) >= StaleLimitDays
         THEN [status |-> "stale", crm |-> crm_value, date |-> <<dt.d, dt.m, dt.y>>]
         ELSE [status |-> "fresh", crm |-> crm_value, date |-> <<dt.d, dt.m, dt.y>>]

\* calculate_crm_update(ri_date, crm_value), with the clock it reads made
\* explicit. "stale" is the message "n'est donc pas a jour", "fresh" the
\* message "est a jour"; both carry crm_value and the date formatted back.
calculate_crm_update(clock, ri_date, crm_value) ==
    LET dt == Strptime(ri_date) IN
    IF ~dt.ok THEN [status |-> "ValueError", crm |-> 0, date |-> <<0, 0, 0>>]
    ELSE IF DeltaDays(clock, dt) > StaleLimitDays
         THEN [status |-> "stale", crm |-> crm_value, date |-> <<dt.d, dt.m, dt.y>>]
         ELSE [status |-> "fresh", crm |-> crm_value, date |-> <<dt.d, dt.m, dt.y>>]

\* ---- bounds and inputs of the freshness check ----
MaxCalls == 2
ClockDays == 3

Date(d, m, y) == [d |-> d, m |-> m, y |-> y]

\* First day of the clock window: 30/03/2024.
ClockStart == ToOrdinal(Date(30, 3, 2024))

\* Edition dates as read from a RI: 89, 90, 91 days before the window's days,
\* a leap day, a date in the future of the clock, and two texts that name no
\* day of the calendar.
EditionDates ==
    { Date(1, 1, 2024), Date(31, 12, 2023), Date(2, 1, 2024),
      Date(29, 2, 2024), Date(1, 4, 2024), Date(29, 2, 2023), Date(31, 4, 2024) }

CrmValues == {850, 1000}

InitStale ==
    /\ now = [day |-> ClockStart, hour |-> 0]
    /\ calls = <<>>

\* Time passes: the clock moves to the end of the day, then to the next day.
Tick ==
    /\ now.day < ClockStart + ClockDays
    /\ now' = IF now.hour = 0 THEN [now EXCEPT !.hour = 23]
              ELSE [day |-> now.day + 1, hour |-> 0]
    /\ UNCHANGED calls

\* One call of calculate_crm_update at the current wall-clock time.
CallUpdate ==
    /\ Len(calls) < MaxCalls
    /\ \E ri \in EditionDates, crm \in CrmValues :
          calls' = Append(calls,
                     [ri_date |-> ri, crm_value |-> crm, at |-> now,
                      out |-> calculate_crm_update(now, ri, crm)])
    /\ UNCHANGED now


(***************************************************************************)
(* CRM rule set (prompt of query_gemini_with_history) as a period engine.  *)
(***************************************************************************)
\* Program constants, in thousandths of the coefficient or in months.
FullFactor         == 1250   \* totalement responsable: coefficient x 1,25
PartialFactor      == 1125   \* partiellement responsable: majoration de 12,5 %
PartialFactorQuoted == 1120  \* partiellement responsable: coefficient x 1,12
ReductionFactor    == 950    \* aucun sinistre responsable: coefficient x 0,95
MinCoefficient     == 500    \* bonus maximal 0,50
MaxCoefficient     == 3500   \* malus maximal 3,50
BaseCoefficient    == 1000   \* coefficient de depart / retour a 1,00
MinReductionMonths == 10     \* duree d'assurance ouvrant droit a la reduction
DeferralMonths     == 2      \* sinistre a moins de 2 mois de la fin de periode
PeriodMonths       == 12     \* annee d'assurance
RapidDescentYears  == 2      \* deux annees consecutives sans sinistre
FranchiseYears     == 3      \* 0,50 depuis au moins 3 ans
InterruptionMonths == 36     \* interruption de 3 ans ou plus
MaxBonusYearsQuoted == 13    \* 0,50 atteint apres 13 ans sans sinistre
MaxBonusYears      == 14     \* minimum de 0,50 apres 14 annees sans sinistre

Responsible == {"Full", "Partial"}

\* The two majorations the instructions give for a partially responsible
\* claim: "+12 % (coefficient x 1,12)" and "majoration de 12,5 %".
PartialFactors == {PartialFactorQuoted, PartialFactor}

\* The mutant of the rounding: the product cut at the second decimal.
Round2_truncated(product) == (product \div 10000) * 10

\* "Arrondi a": a product of two thousandths (in millionths) rounded to the
\* nearest hundredth, the half upwards (0,9025 -> 0,90; 1,125 -> 1,13;
\* 1,7575 -> 1,76); the result is in thousandths.
Round2(product) == ((product + 5000) \div 10000) * 10

\* The result of a partial majoration is stated to the third decimal
\* (1,00 -> 1,125): the product rounded to the nearest thousandth.
Round3(product) == (product + 500) \div 1000

\* The mutant of the majoration: the 12,5 % of a partially responsible
\* claim taken off the coefficient instead of added to it.
Majoration_partialSign(value, responsibility) ==
    IF responsibility = "Full" THEN Round2(value * FullFactor)
    ELSE IF responsibility = "Partial"
    THEN IF reading.partial = PartialFactor
         THEN Round3(value * (2 * BaseCoefficient - PartialFactor))
         ELSE Round2(value * (2 * BaseCoefficient - PartialFactorQuoted))
    ELSE value

\* Majoration of one claim: x1,25 fully responsible, nothing for a
\* non-responsible claim; partially responsible, the 12,5 % of the cases
\* and examples (1,00 -> 1,125, the third decimal kept) or the x1,12 of the
\* general rules, whichever the invocation reads.
Majoration(value, responsibility) ==
    IF responsibility = "Full" THEN Round2(value * FullFactor)
    ELSE IF responsibility = "Partial"
    THEN IF reading.partial = PartialFactor THEN Round3(value * PartialFactor)
         ELSE Round2(value * PartialFactorQuoted)
    ELSE value

\* Annual reduction of 5 %.
Reduction(value) == Round2(value * ReductionFactor)

\* The mutant of the range: the lower bound kept, the upper bound forgotten.
Clamp_noMax(value) == Max(value, MinCoefficient)

\* Range of the CRM: 0,50 .. 3,50.
Clamp(value) == Min(Max(value, MinCoefficient), MaxCoefficient)

\* The mutant of the claims pass: a non-responsible claim cancels the
\* reduction of its period.
ClaimStep_noRespCounts(acc, claim) ==
    IF claim.responsibility \in Responsible /\ acc.franchiseAvailable
       /\ acc.value = MinCoefficient
    THEN [value |-> acc.value, franchiseAvailable |-> FALSE, responsible |-> TRUE]
    ELSE IF claim.responsibility \in Responsible
    THEN [value |-> Majoration(acc.value, claim.responsibility),
          franchiseAvailable |-> acc.franchiseAvailable, responsible |-> TRUE]
    ELSE [acc EXCEPT !.responsible = TRUE]

\* The mutant of the franchise: it exempts a claim and stays available.
ClaimStep_franchiseKept(acc, claim) ==
    IF claim.responsibility \in Responsible /\ acc.franchiseAvailable
       /\ acc.value = MinCoefficient
    THEN [value |-> acc.value, franchiseAvailable |-> TRUE, responsible |-> TRUE]
    ELSE IF claim.responsibility \in Responsible
    THEN [value |-> Majoration(acc.value, claim.responsibility),
          franchiseAvailable |-> acc.franchiseAvailable,
          responsible |-> TRUE]
    ELSE acc

\* One claim of the claims pass. acc = [value, franchiseAvailable,
\* responsible]: the running value, the franchise still available, and
\* whether a responsible claim was met in this period.
\* The franchise covers the first responsible claim, fully or partially
\* responsible, of a CRM at 0,50 ("si le CRM est de 0,50 depuis au moins
\* 3 ans, le 1er sinistre responsable ne majore pas le coefficient").
ClaimStep(acc, claim) ==
    IF claim.responsibility \in Responsible /\ acc.franchiseAvailable
       /\ acc.value = MinCoefficient
    THEN [value |-> acc.value, franchiseAvailable |-> FALSE, responsible |-> TRUE]
    ELSE IF claim.responsibility \in Responsible
    THEN [value |-> Majoration(acc.value, claim.responsibility),
          franchiseAvailable |-> acc.franchiseAvailable,
          responsible |-> TRUE]
    ELSE acc

\* Step 1: the claims of the period in chronological order.
RECURSIVE ClaimsPass(_, _)
ClaimsPass(acc, claims) ==
    IF claims = <<>> THEN acc
    ELSE ClaimsPass(ClaimStep(acc, Head(claims)), Tail(claims))

\* The mutant of the eligibility: every period earns the reduction.
ReductionEligible_always(period) == TRUE

\* A period earns the reduction when it lasted 10 months or more.
ReductionEligible(period) == period.durationMonths >= MinReductionMonths

\* The mutant of the annual adjustment: the reduction granted whether or not
\* a responsible claim occurred in the period.
AnnualAdjustment_ignoresClaims(value, responsible, period) ==
    IF ReductionEligible(period) THEN Reduction(value) ELSE value

\* Step 2: the annual adjustment, cancelled by any responsible claim.
AnnualAdjustment(value, responsible, period) ==
    IF ~responsible /\ ReductionEligible(period) THEN Reduction(value) ELSE value

\* The mutant of the rapid descent: it needs three claim-free years.
RapidDescent_threeYears(value, claimFreeYears) ==
    value > BaseCoefficient /\ claimFreeYears >= RapidDescentYears + 1

\* Rapid descent: the client is "maluse" (CRM > 1) and has stayed two
\* consecutive years without responsible claim. value is the coefficient the
\* client held when the first of these years began.
RapidDescent(value, claimFreeYears) ==
    value > BaseCoefficient /\ claimFreeYears >= RapidDescentYears

\* The maximal bonus is reached after the years without responsible claim
\* the invocation reads, 13 ("atteint apres 13 ans") or 14 ("apres 14
\* annees"), counted from a coefficient of 1,00 or
\* less (above 1,00 the rapid descent ends the count after two years). The
\* reduction of 5 %, rounded as the instructions round it, brings 1,00 to
\* 0,52 in 13 years and to 0,50 in 14.
MaxBonusReached(claimFreeYears) == claimFreeYears >= reading.maxBonus

\* The mutant of the franchise: two years at 0,50 are enough.
FranchiseEarned_twoYears(yearsAtFloor) == yearsAtFloor >= FranchiseYears - 1

\* The franchise is earned by a CRM at 0,50 for at least 3 years.
FranchiseEarned(yearsAtFloor) == yearsAtFloor >= FranchiseYears

\* The mutant of the year: a period of any length counts as a year.
InsuredYear_anyPeriod(period) == TRUE

\* A period counts as a year of insurance ("deux annees consecutives",
\* "depuis au moins 3 ans") when it lasted the twelve months.
InsuredYear(period) == period.durationMonths >= PeriodMonths

\* Steps 1-4 and 6 for one assessment period: the next CoefficientState.
\* A claim-free period shorter than a year leaves the two counters of years
\* as they are; a year at 0,50 is one begun and ended at 0,50.
ProcessPeriod(st, period) ==
    LET acc == ClaimsPass([value |-> st.value,
                           franchiseAvailable |-> st.franchiseAvailable,
                           responsible |-> FALSE], period.claims)
        adjusted == AnnualAdjustment(acc.value, acc.responsible, period)
        year == InsuredYear(period)
        freeYears == IF acc.responsible THEN 0
                     ELSE IF year THEN st.consecutiveClaimFreeYears + 1
                     ELSE st.consecutiveClaimFreeYears
        runStart == IF st.consecutiveClaimFreeYears = 0 THEN st.value
                    ELSE st.valueAtRunStart
        descent == RapidDescent(runStart, freeYears)
        years == IF descent THEN 0 ELSE freeYears
        clamped == IF descent THEN BaseCoefficient
                   ELSE IF MaxBonusReached(years) THEN MinCoefficient
                   ELSE Clamp(adjusted)
        atFloor == IF acc.responsible \/ clamped # MinCoefficient THEN 0
                   ELSE IF year /\ st.value = MinCoefficient
                   THEN st.yearsAtFloor + 1
                   ELSE st.yearsAtFloor
    IN  [value |-> clamped,
         asOfDate |-> period.end,
         consecutiveClaimFreeYears |-> years,
         valueAtRunStart |-> IF years = 0 THEN 0 ELSE runStart,
         yearsAtFloor |-> atFloor,
         franchiseAvailable |->
             acc.franchiseAvailable \/ FranchiseEarned(atFloor)]


(***************************************************************************)
(* RecordNormalizer.                                                       *)
(***************************************************************************)
\* The first defect of one raw record, dates first, then its claims.
RecordError(rec) ==
    IF rec.subscriptionDate = None THEN "MissingRequiredDateError"
    ELSE IF rec.terminationDate # None
            /\ Get(rec.terminationDate) <= Get(rec.subscriptionDate)
    THEN "InvalidDateOrderError"
    ELSE IF rec.editionDate = None THEN "MissingRequiredDateError"
    ELSE IF \E i \in 1..Len(rec.claims) : rec.claims[i].responsibility = "Unspecified"
    THEN "AmbiguousResponsibilityError"
    ELSE NoError

\* The mutant of the normalizer: an unspecified responsibility or a missing
\* edition date is let through (and later read as "no effect" / defaulted).
Normalize_lenient(h) ==
    IF \E i \in 1..Len(h) : h[i].subscriptionDate = None
    THEN [error |-> "MissingRequiredDateError",
          record |-> CHOOSE i \in 1..Len(h) : h[i].subscriptionDate = None]
    ELSE [error |-> NoError, record |-> 0]

\* The RI in increasing subscription order (stable).
RECURSIVE InsertBySubscription(_, _)
InsertBySubscription(sorted, rec) ==
    IF sorted = <<>> THEN <<rec>>
    ELSE IF Get(rec.subscriptionDate) < Get(Head(sorted).subscriptionDate)
    THEN <<rec>> \o sorted
    ELSE <<Head(sorted)>> \o InsertBySubscription(Tail(sorted), rec)

RECURSIVE SortedPrefix(_, _)
SortedPrefix(h, n) ==
    IF n = 0 THEN <<>>
    ELSE InsertBySubscription(SortedPrefix(h, n - 1), h[n])

\* The mutant of the sort: the RI taken in the order they were supplied.
SortRecords_asGiven(h) == h

\* "Trier les RI du plus ancien au plus recent": the records the engine
\* walks, oldest subscription first.
SortRecords(h) == SortedPrefix(h, Len(h))

\* Validation of the whole history: the first offending record; then, the
\* records being sound one by one, the chronological consistency of the
\* history put oldest first: no record may be subscribed before the record
\* preceding it was terminated or, that one bearing no termination, before
\* the date it was last known at (its edition date). The record named is the
\* first of the supplied ones that is subscribed too early.
Normalize(h) ==
    IF \E i \in 1..Len(h) : RecordError(h[i]) # NoError
    THEN LET i == CHOOSE k \in 1..Len(h) :
                    /\ RecordError(h[k]) # NoError
                    /\ \A j \in 1..(k - 1) : RecordError(h[j]) = NoError
         IN [error |-> RecordError(h[i]), record |-> i]
    ELSE LET s == SortRecords(h)
             lastKnown(rec) == IF rec.terminationDate # None
                               THEN Get(rec.terminationDate)
                               ELSE Get(rec.editionDate)
             early == {k \in 1..Len(h) :
                          \E j \in 2..Len(s) :
                              /\ h[k] = s[j]
                              /\ Get(s[j].subscriptionDate) < lastKnown(s[j - 1])}
         IN  IF early # {}
             THEN [error |-> "InvalidDateOrderError",
                   record |-> CHOOSE k \in early : \A j \in early : k <= j]
             ELSE [error |-> NoError, record |-> 0]

(***************************************************************************)
(* PeriodSegmenter and ClaimAssigner.                                      *)
(***************************************************************************)
\* Claims in increasing date order (stable: equal dates keep their order).
RECURSIVE InsertByDate(_, _)
InsertByDate(sorted, c) ==
    IF sorted = <<>> THEN <<c>>
    ELSE IF c.date < Head(sorted).date THEN <<c>> \o sorted
    ELSE <<Head(sorted)>> \o InsertByDate(Tail(sorted), c)

RECURSIVE SortByDate(_)
SortByDate(claims) ==
    IF claims = <<>> THEN <<>>
    ELSE InsertByDate(SortByDate(SubSeq(claims, 1, Len(claims) - 1)),
                      claims[Len(claims)])

\* End of the lifespan of the i-th RI: its termination ("en cas de
\* resiliation le calcul du CRM doit s'actualiser a la date de
\* resiliation"), whatever the reference date; without termination, the
\* subscription of the next RI, where the calculation is taken up, and for
\* the last RI the reference date, up to which the update is continued.
RecordEnd(h, i, ref) ==
    IF h[i].terminationDate # None THEN Get(h[i].terminationDate)
    ELSE IF i < Len(h) THEN Get(h[i + 1].subscriptionDate)
    ELSE ref

\* Number of assessment periods of the i-th RI. The last period of a
\* terminated RI and of the last RI may be partial; a RI without termination
\* that another RI follows is taken up from its last annual update ("la
\* derniere date d'actualisation"): its periods are its completed years.
PeriodCount(h, i, ref) ==
    LET span == RecordEnd(h, i, ref) - Get(h[i].subscriptionDate)
    IN  IF span <= 0 THEN 0
        ELSE IF h[i].terminationDate = None /\ i < Len(h)
        THEN span \div PeriodMonths
        ELSE (span + PeriodMonths - 1) \div PeriodMonths

\* The mutant of the deferral: every claim assessed in the period it is dated in.
AssignedClaims_noDeferral(rec, k, start, end) ==
    SelectSeq(SortByDate(rec.claims), LAMBDA c : start <= c.date /\ c.date < end)

\* The claims assessed in the period [start, end): those dated in it, less
\* those dated less than two months before the end of its period of 12
\* months, plus those deferred from the period before.
AssignedClaims(rec, k, start, end) ==
    LET lo == IF k = 1 THEN start ELSE start - DeferralMonths
        hi == Min(end, start + PeriodMonths - DeferralMonths)
    IN  SelectSeq(SortByDate(rec.claims), LAMBDA c : lo <= c.date /\ c.date < hi)

\* The k-th assessment period of the i-th RI.
Period(h, i, ref, k) ==
    LET start == Get(h[i].subscriptionDate) + (k - 1) * PeriodMonths
        end == Min(start + PeriodMonths, RecordEnd(h, i, ref))
    IN  [start |-> start,
         end |-> end,
         claims |-> AssignedClaims(h[i], k, start, end),
         isFinalPartialPeriod |->
             /\ h[i].terminationDate # None
             /\ k = PeriodCount(h, i, ref),
         durationMonths |-> end - start]

Periods(h, i, ref) ==
    [k \in 1..PeriodCount(h, i, ref) |-> Period(h, i, ref, k)]

\* The claims of the i-th RI that none of its periods assesses: those dated
\* less than two months before the end of its last period of 12 months, and
\* those dated after the last annual update of a RI without termination.
Pending(h, i, ref) ==
    LET n == PeriodCount(h, i, ref)
        from == IF n = 0 THEN Get(h[i].subscriptionDate)
                ELSE Get(h[i].subscriptionDate) + n * PeriodMonths
                         - DeferralMonths
    IN  SelectSeq(SortByDate(h[i].claims),
            LAMBDA c : from <= c.date /\ c.date < RecordEnd(h, i, ref))

\* The mutant of the carry: a claim pending at the end of a RI is dropped.
Carried_dropped(h, i, ref) == <<>>

\* "Pris en compte pour la periode de l'annee suivante": the claims pending
\* at the end of the RI before the i-th, taken up by the i-th. A RI that has
\* no period of its own (taken over by the next insurer before its first
\* annual update) assesses nothing: the claims it took up are still pending
\* at its end, before its own.
RECURSIVE Carried(_, _, _)
Carried(h, i, ref) ==
    IF i = 1 THEN <<>>
    ELSE (IF PeriodCount(h, i - 1, ref) = 0
          THEN Carried(h, i - 1, ref) ELSE <<>>)
             \o Pending(h, i - 1, ref)

\* The periods of a record, the first one assessing the carried claims too.
WithCarried(periods, carried) ==
    IF periods = <<>> THEN periods
    ELSE [periods EXCEPT ![1].claims = carried \o @]

(***************************************************************************)
(* CoefficientEngine: seeding, and ResultReporter.                         *)
(***************************************************************************)
\* Initial state: 1,00 or the coefficient stated on the first record.
InitialState(h) ==
    [value |-> IF h[1].statedCoefficient # None
               THEN Get(h[1].statedCoefficient)
               ELSE BaseCoefficient,
     asOfDate |-> Get(h[1].subscriptionDate),
     consecutiveClaimFreeYears |-> 0,
     valueAtRunStart |-> 0,
     yearsAtFloor |-> 0,
     franchiseAvailable |-> FALSE]

\* "Si un client bonuse interrompt son contrat pendant 3 ans ou plus, son
\* CRM revient automatiquement a 1,00": a coefficient below 1,00 left
\* uninsured for that many months.
BonusLost(value, months) ==
    value < BaseCoefficient /\ months >= InterruptionMonths

\* The mutant of the interruption: only more than 3 years loses the bonus.
SeedNext_strictGap(st, lastEnd, nextRec) ==
    LET gap == Get(nextRec.subscriptionDate) - lastEnd
        run == IF gap > 0
               THEN [st EXCEPT !.consecutiveClaimFreeYears = 0,
                               !.valueAtRunStart = 0]
               ELSE st
    IN  IF gap > InterruptionMonths /\ st.value < BaseCoefficient
        THEN [run EXCEPT !.value = BaseCoefficient, !.yearsAtFloor = 0,
                         !.franchiseAvailable = FALSE]
        ELSE run

\* Step 5: the state seeding the next record. A bonus is lost after an
\* interruption of 3 years or more, and with it the years at 0,50 and the
\* franchise they earned; otherwise the coefficient is carried. The years
\* without responsible claim are consecutive years of insurance ("rester
\* assure pendant deux annees consecutives"): any time uninsured between
\* the two records ends their count.
SeedNext(st, lastEnd, nextRec) ==
    LET gap == Get(nextRec.subscriptionDate) - lastEnd
        run == IF gap > 0
               THEN [st EXCEPT !.consecutiveClaimFreeYears = 0,
                               !.valueAtRunStart = 0]
               ELSE st
    IN  IF BonusLost(st.value, gap)
        THEN [run EXCEPT !.value = BaseCoefficient, !.yearsAtFloor = 0,
                         !.franchiseAvailable = FALSE]
        ELSE run

\* The coefficient held at the reference date and the months uninsured
\* behind it: the value of the latest state dated at or before the reference
\* date (the initial coefficient when there is none), and the months from
\* that state to the reference date or, if sooner, to the next subscription.
\* The coefficient is updated over insured periods only: the time after a
\* termination brings no reduction.
InForce(h, ref, tr) ==
    LET prior == {i \in 1..Len(tr) : tr[i].asOfDate <= ref}
    IN  IF prior = {}
        THEN [value |-> InitialState(h).value, uninsured |-> 0]
        ELSE LET last == tr[CHOOSE i \in prior : \A j \in prior : j <= i]
                 resumed == {d \in {Get(h[j].subscriptionDate) : j \in 1..Len(h)} :
                                last.asOfDate <= d /\ d <= ref}
                 until == IF resumed = {} THEN ref
                          ELSE CHOOSE d \in resumed : \A e \in resumed : d <= e
             IN  [value |-> last.value, uninsured |-> until - last.asOfDate]

\* The trace value at a date (the latest state with that asOfDate), if any.
ValueAt(tr, date) ==
    LET hits == {i \in 1..Len(tr) : date # None /\ tr[i].asOfDate = Get(date)}
    IN  IF hits = {} THEN None
        ELSE Some(tr[CHOOSE i \in hits : \A j \in hits : j <= i].value)

\* The first day of an engine month, as a calendar date (month 0 is
\* January 2020).
MonthDate(m) == [d |-> 1, m |-> (m % 12) + 1, y |-> 2020 + (m \div 12)]

\* StalenessChecker: the RI is out of date when more than 90 days separate
\* the reference date from its edition date.
Staleness(ref, edition) ==
    IF ToOrdinal(MonthDate(ref)) - ToOrdinal(MonthDate(edition)) > StaleLimitDays
    THEN "Stale" ELSE "Fresh"

YoungDriverMonths   == 36    \* fewer than 3 years of licence
MinYoungCoefficient == 900   \* jeune conducteur: CRM entre 0,90 et 3,5

\* The mutant of the consistency check: a licence of exactly 3 years still
\* counted as a young driver's.
Consistency_inclusive(ref, licence, value) ==
    IF ref - licence <= YoungDriverMonths
       /\ (value < MinYoungCoefficient \/ value > MaxCoefficient)
    THEN "Suspicious" ELSE "Ok"

\* ConsistencyValidator: a young driver's coefficient outside 0,90 .. 3,50
\* is flagged.
Consistency(ref, licence, value) ==
    IF ref - licence < YoungDriverMonths
       /\ (value < MinYoungCoefficient \/ value > MaxCoefficient)
    THEN "Suspicious" ELSE "Ok"

\* The mutant of the reporter: a bonus kept at the reference date however
\* long the interruption.
Report_bonusKept(h, ref, tr) ==
    LET atRef == InForce(h, ref, tr).value
        cons == Consistency(ref, h[Len(h)].licenseDate, atRef)
    IN  [kind |-> IF cons = "Suspicious" THEN "inconsistent" ELSE "result",
         trace |-> tr,
         coefficientAtTermination |-> ValueAt(tr, h[Len(h)].terminationDate),
         coefficientAtReference |-> atRef,
         staleness |-> Staleness(ref, Get(h[Len(h)].editionDate)),
         consistency |-> cons]

\* The mutant of the reporter: one number for both headline values.
Report_conflated(h, ref, tr) ==
    LET held == InForce(h, ref, tr)
        atRef == IF BonusLost(held.value, held.uninsured)
                 THEN BaseCoefficient ELSE held.value
        cons == Consistency(ref, h[Len(h)].licenseDate, atRef)
    IN  [kind |-> IF cons = "Suspicious" THEN "inconsistent" ELSE "result",
         trace |-> tr,
         coefficientAtTermination |-> Some(atRef),
         coefficientAtReference |-> atRef,
         staleness |-> Staleness(ref, Get(h[Len(h)].editionDate)),
         consistency |-> cons]

\* The communication of the computed CRM: the trace, the CRM at the date of
\* termination and the CRM at the reference date, with the two flags. At the
\* reference date a bonus left uninsured for 3 years or more is back at 1,00
\* (0,50 at the 1st of January 2023, interrupted from the 1st of January
\* 2024: 1,00 at the 1st of January 2027). A young driver's CRM outside
\* 0,90 .. 3,5 is communicated as an inconsistency, the data to be corrected
\* "avant de poursuivre le calcul"; an out-of-date RI that was computed all
\* the same is communicated with the warning that the CRM may be wrong.
Report(h, ref, tr) ==
    LET held == InForce(h, ref, tr)
        atRef == IF BonusLost(held.value, held.uninsured)
                 THEN BaseCoefficient ELSE held.value
        cons == Consistency(ref, h[Len(h)].licenseDate, atRef)
    IN  [kind |-> IF cons = "Suspicious" THEN "inconsistent" ELSE "result",
         trace |-> tr,
         coefficientAtTermination |-> ValueAt(tr, h[Len(h)].terminationDate),
         coefficientAtReference |-> atRef,
         staleness |-> Staleness(ref, Get(h[Len(h)].editionDate)),
         consistency |-> cons]

ErrorResult(e) == [kind |-> "error", error |-> e.error, record |-> e.record]

(***************************************************************************)
(* Inputs of the engine.                                                   *)
(***************************************************************************)
MaxClaims == 2

ClaimDates == {8, 10, 13, 26, 40}
Responsibilities == {"Full", "Partial", "NoResp"}
ClaimPool == [date : ClaimDates, responsibility : Responsibilities]

Lengths == {9, 10, 12, 21, 24, 34, 48}
StatedCoefficients == {None, Some(500), Some(1040), Some(1660), Some(3400)}

RECURSIVE SeqsUpTo(_, _)
SeqsUpTo(S, n) ==
    IF n = 0 THEN {<<>>}
    ELSE LET shorter == SeqsUpTo(S, n - 1)
         IN  shorter \cup {Append(q, x) : q \in {r \in shorter : Len(r) = n - 1},
                                          x \in S}

Claim(d, r) == [date |-> d, responsibility |-> r]

\* Claim lists of a record of the given length: at most n claims dated
\* inside the record, in date order.
ClaimLists(len, n) ==
    {q \in SeqsUpTo({c \in ClaimPool : c.date < len}, n) :
        \A i \in 1..Len(q) : \A j \in i..Len(q) : q[i].date <= q[j].date}

\* Two lists that the engine has to put in date order itself.
UnsortedLists ==
    {<<Claim(13, "Full"), Claim(8, "Partial")>>,
     <<Claim(13, "NoResp"), Claim(8, "Full")>>}

\* The licence date of a primary driver licensed for ten years at month 0.
LongLicensed == 0 - 120

Record(sub, term, edition, stated, claims) ==
    [subscriptionDate |-> sub, terminationDate |-> term, editionDate |-> edition,
     statedCoefficient |-> stated, claims |-> claims,
     licenseDate |-> LongLicensed]

\* One record starting at month 0 and lasting len months: open (running to
\* the reference date), or terminated with the reference date lag months on.
Single(len, open, lag, stated, claims) ==
    [history |-> <<Record(Some(0), IF open THEN None ELSE Some(len), Some(len),
                          stated, claims)>>,
     ref |-> len + lag]

Endings == {<<TRUE, 0>>, <<FALSE, 0>>, <<FALSE, 12>>}

\* Every length, ending and starting coefficient, with at most one claim.
BroadInputs ==
    UNION {{Single(len, e[1], e[2], sc, cl) : cl \in ClaimLists(len, 1)} :
           len \in Lengths, e \in Endings, sc \in StatedCoefficients}

\* Up to MaxClaims claims dated inside a record of the given length, with
\* at most one claim on a date, in date order.
DeepLists(len) ==
    {q \in ClaimLists(len, MaxClaims) :
        \A i \in 1..Len(q) : \A j \in 1..Len(q) : i < j => q[i].date < q[j].date}

\* Records of two and four years with up to MaxClaims claims.
DeepInputs ==
    UNION {{Single(len, e[1], e[2], sc, cl) :
                cl \in DeepLists(len) \cup UnsortedLists} :
           len \in {24, 48}, e \in {<<TRUE, 0>>, <<FALSE, 12>>},
           sc \in {None, Some(1660)}}

SingleInputs == BroadInputs \cup DeepInputs

\* Two records of successive insurers, the second after a gap.
Gaps == {0, 35, 36}
TwoInputs ==
    {[history |-> <<Record(Some(0), Some(l1), Some(l1), sc, c1),
                    Record(Some(l1 + gap),
                           IF open THEN None ELSE Some(l1 + gap + l2),
                           Some(l1 + gap + l2), None,
                           IF c2 THEN <<Claim(l1 + gap + 1, "Partial")>>
                           ELSE <<>>)>>,
      ref |-> l1 + gap + l2] :
        l1 \in {12, 24}, l2 \in {10, 12}, gap \in Gaps, open \in BOOLEAN,
        sc \in {None, Some(500), Some(1660)},
        c1 \in {<<>>, <<Claim(1, "Full")>>},
        c2 \in BOOLEAN}

\* Raw inputs with a missing or inconsistent fact. The last three defects
\* make the first record overlap the second when it is the first record
\* that ends late or is known late, or the second that starts early.
Defects == {"noSubscription", "noEdition", "noResponsibility",
            "terminationNotAfter", "terminationBefore",
            "noEditionNoResponsibility", "outOfOrder",
            "endsLate", "startsEarly", "openAndKnownLate"}

Damage(rec, defect) ==
    IF defect = "noSubscription" THEN [rec EXCEPT !.subscriptionDate = None]
    ELSE IF defect = "noEdition" THEN [rec EXCEPT !.editionDate = None]
    ELSE IF defect = "noResponsibility"
    THEN [rec EXCEPT !.claims = Append(@, Claim(Get(rec.subscriptionDate) + 1, "Unspecified"))]
    ELSE IF defect = "terminationNotAfter"
    THEN [rec EXCEPT !.terminationDate = rec.subscriptionDate]
    ELSE IF defect = "terminationBefore"
    THEN [rec EXCEPT !.terminationDate = Some(Get(rec.subscriptionDate) - 1)]
    ELSE IF defect = "noEditionNoResponsibility"
    THEN [rec EXCEPT !.editionDate = None,
                     !.claims = Append(@, Claim(Get(rec.subscriptionDate) + 1, "Unspecified"))]
    ELSE IF defect = "endsLate"
    THEN [rec EXCEPT !.terminationDate = Some(Get(rec.terminationDate) + 6)]
    ELSE IF defect = "startsEarly"
    THEN [rec EXCEPT !.subscriptionDate = Some(Get(rec.subscriptionDate) - 6)]
    ELSE IF defect = "openAndKnownLate"
    THEN [rec EXCEPT !.terminationDate = None,
                     !.editionDate = Some(Get(rec.terminationDate) + 6)]
    ELSE rec

DefectBase ==
    {inp \in TwoInputs :
        /\ inp.history[1].statedCoefficient = None
        /\ inp.history[2].subscriptionDate = Some(12)
        /\ inp.history[2].terminationDate = Some(24)
        /\ inp.history[2].claims = <<>>}

DefectInputs ==
    {[history |-> IF d = "outOfOrder"
                  THEN <<inp.history[2], inp.history[1]>>
                  ELSE [inp.history EXCEPT ![i] = Damage(@, d)],
      ref |-> inp.ref] :
        inp \in DefectBase, d \in Defects, i \in 1..2}

\* The same history with another licence date of the primary driver.
WithLicense(h, licence) == [i \in 1..Len(h) |-> [h[i] EXCEPT !.licenseDate = licence]]

\* Young drivers: a licence of 2 years, of 3 years less a month and of 3
\* years at the reference date, on one-year and two-year records.
LicenceAges == {24, 35, 36}
YoungInputs ==
    {[history |-> WithLicense(inp.history, inp.ref - age), ref |-> inp.ref] :
        inp \in {b \in BroadInputs :
                    /\ Get(b.history[1].editionDate) \in {12, 24}
                    /\ b.history[1].statedCoefficient \in {None, Some(500)}},
        age \in LicenceAges}

\* The worked example of the instructions, in months from 20/06/2017:
\* responsible claims on 17/10/2017 (3), 22/03/2019 (21) and 10/08/2020
\* (37), non-responsible ones on 14/02/2018 (7), 05/01/2022 (54) and
\* 04/10/2022 (63), termination on 10/10/2023 (75).
WorkedExample ==
    [history |-> <<Record(Some(0), Some(75), Some(75), Some(BaseCoefficient),
                          <<Claim(3, "Full"), Claim(7, "NoResp"),
                            Claim(21, "Full"), Claim(37, "Full"),
                            Claim(54, "NoResp"), Claim(63, "NoResp")>>)>>,
     ref |-> 75]

\* Records started at 0,50, long enough to earn the franchise (after three
\* years) and to meet claims afterwards.
FranchiseDates == {38, 40, 50}
FranchiseInputs ==
    UNION {{Single(len, TRUE, 0, Some(MinCoefficient), cl) :
                cl \in {q \in SeqsUpTo([date : {d \in FranchiseDates : d < len},
                                         responsibility : Responsible], MaxClaims) :
                           \A i \in 1..Len(q) : \A j \in i..Len(q) :
                               q[i].date <= q[j].date}} :
           len \in {48, 85}}

\* The example of the deferred claim: CRM 0,95, a responsible claim on
\* 15/11/2024 (10), the contract year ending on 31/12/2024 (12), the CRM
\* for 2026 (24).
DeferralExample ==
    Single(24, FALSE, 0, Some(950), <<Claim(10, "Full")>>)

\* Two records, the first of at most a year with a claim near its end; and
\* three records, the second taken over by the third after 8, 11 or 12
\* months, with or without termination, the claim being near the end of the
\* first year or, all three without termination, in the first months.
LateDates == {9, 10, 11}
CarryInputs ==
    {[history |-> <<Record(Some(0), Some(l1), Some(l1), sc, <<Claim(d, r)>>),
                    Record(Some(l1 + gap),
                           IF open THEN None ELSE Some(l1 + gap + l2),
                           Some(l1 + gap + l2), None, <<>>)>>,
      ref |-> l1 + gap + l2] :
        l1 \in {11, 12}, l2 \in {10, 12}, gap \in {0, 36}, open \in BOOLEAN,
        sc \in {None, Some(500)}, d \in LateDates, r \in Responsible}
        \cup {[history |-> <<Record(Some(0), Some(12), Some(12), Some(950),
                                   <<Claim(10, r)>>),
                            Record(Some(12),
                                   IF open THEN None ELSE Some(12 + l2),
                                   Some(12 + l2), None, <<>>),
                            Record(Some(12 + l2), None, Some(24 + l2), None,
                                   <<>>)>>,
               ref |-> 24 + l2] :
                  l2 \in {8, 11, 12}, open \in BOOLEAN, r \in Responsible}
        \cup {[history |-> <<Record(Some(0), None, Some(5), None,
                                   <<Claim(3, "Full")>>),
                            Record(Some(9), None, Some(15), None, <<>>),
                            Record(Some(15), None, Some(27), None, <<>>)>>,
               ref |-> 27]}

\* One-year records terminated half a year, two years and two years and a
\* half before the reference date.
Lags == {6, 24, 30, 36}
ProjectionInputs ==
    {Single(12, FALSE, lag, sc, cl) :
        lag \in Lags, sc \in {None, Some(500), Some(1660)},
        cl \in {<<>>, <<Claim(1, "Full")>>}}

\* "J'ai eu 3 sinistres responsables avec un CRM actuel de 1,00."
ThreeClaimsExample ==
    Single(12, FALSE, 0, Some(BaseCoefficient),
           <<Claim(1, "Full"), Claim(2, "Full"), Claim(3, "Full")>>)

\* A record started at 0,52: the floor is reached at the end of the first
\* year, a claim falls in the fifth.
FloorReachedInputs ==
    {Single(60, TRUE, 0, Some(520), cl) : cl \in {<<>>, <<Claim(50, "Full")>>}}

\* A record started at 1,00 and kept 13 or 14 years without responsible
\* claim.
LongRunInputs ==
    {Single(len, open, 0, sc, <<>>) :
        len \in {MaxBonusYearsQuoted * PeriodMonths, MaxBonusYears * PeriodMonths},
        open \in BOOLEAN, sc \in {None, Some(BaseCoefficient)}}

\* Records looked at on their first annual due date, before their
\* termination; the worked example on its due date of 20/06/2023 (72),
\* before its termination; two records looked at between them, and in the
\* first year or at the first due date of the second.
EarlyRefInputs ==
    {Single(len, FALSE, PeriodMonths - len, sc, cl) :
        len \in {21, 22, 24}, sc \in {None, Some(1660)},
        cl \in {<<>>, <<Claim(13, "Full")>>}}
        \cup {[WorkedExample EXCEPT !.ref = 72]}
        \cup {[history |-> <<Record(Some(0), Some(12), Some(12), Some(sc), <<>>),
                            Record(Some(gap + 12), Some(gap + 36),
                                   Some(gap + 36), None, <<>>)>>,
               ref |-> gap + 12 + lag] :
                  sc \in {500, 1660}, gap \in {35, 36}, lag \in {-6, 6, 12}}

\* A first RI without termination, edited after its first year, followed by
\* the RI of the next insurer, subscribed on that date or later.
OpenFirstInputs ==
    {[history |-> <<Record(Some(0), None, Some(PeriodMonths), sc, c1),
                    Record(Some(s2),
                           IF open THEN None ELSE Some(s2 + l2),
                           Some(s2 + l2), None, <<>>)>>,
      ref |-> s2 + l2 + lag] :
        s2 \in {12, 15, 22, 24}, l2 \in {10, 12}, open \in BOOLEAN,
        lag \in {0, 24}, sc \in {None, Some(500), Some(1660)},
        c1 \in {<<>>, <<Claim(13, "Full")>>}}

Inputs ==
    FranchiseInputs \cup FloorReachedInputs \cup LongRunInputs \cup SingleInputs \cup TwoInputs \cup DefectInputs \cup YoungInputs
        \cup CarryInputs \cup ProjectionInputs \cup EarlyRefInputs
        \cup OpenFirstInputs
        \cup {WorkedExample, DeferralExample, ThreeClaimsExample}

(***************************************************************************)
(* The invocation as a state machine.                                      *)
(***************************************************************************)
NoState ==
    [value |-> 0, asOfDate |-> 0, consecutiveClaimFreeYears |-> 0,
     valueAtRunStart |-> 0, yearsAtFloor |-> 0, franchiseAvailable |-> FALSE]
NoResult == [kind |-> "none"]

\* The records of the invocation in the order the engine walks them.
Records == SortRecords(history)

(***************************************************************************)
(* The Streamlit application: accounts, session state, questions, uploads. *)
(* Texts are sequences of characters, each its code point; a key of        *)
(* st.session_state is None while missing and Some(value) once set, the     *)
(* value None of Python being the empty option inside.                     *)
(***************************************************************************)
\* A character is its Unicode code point.
\* [A-Z], [a-z] and [0-9].
Upper == 65..90
Lower == 97..122
Digits == 48..57

\* The 29 characters str.strip() takes for white space: \t, \n, U+000B,
\* \f, \r, the separators U+001C to U+001F, the space, U+0085, U+00A0,
\* U+1680, U+2000 to U+200A, U+2028, U+2029, U+202F, U+205F and U+3000.
Whitespace ==
    (9..13) \cup (28..32) \cup {133, 160, 5760} \cup (8192..8202)
        \cup {8232, 8233, 8239, 8287, 12288}

\* re.search of a character class in a text.
re_search(class, text) == \E i \in 1..Len(text) : text[i] \in class

MinPasswordLength == 8

\* validate_password: the list of the rules the password breaks.
validate_password(password) ==
    SelectSeq(<<"length", "upper", "lower", "digit">>,
        LAMBDA e : \/ e = "length" /\ Len(password) < MinPasswordLength
                   \/ e = "upper" /\ ~re_search(Upper, password)
                   \/ e = "lower" /\ ~re_search(Lower, password)
                   \/ e = "digit" /\ ~re_search(Digits, password))

\* The character classes of the e-mail pattern: the letters and digits,
\* with "_", ".", "+" and "-" before the @, "-" after it, "-" and "." after
\* the dot.
LocalChars == Upper \cup Lower \cup Digits \cup {95, 46, 43, 45}
DomainChars == Upper \cup Lower \cup Digits \cup {45}
TailChars == DomainChars \cup {46}

\* The text is [local]+ @ [domain]+ . [tail]+ for some place of the @ and of
\* the dot.
MatchesPattern(text) ==
    \E a \in 1..Len(text), d \in 1..Len(text) :
        /\ 1 < a /\ a + 1 < d /\ d < Len(text)
        /\ text[a] = 64    \* "@"
        /\ text[d] = 46    \* "."
        /\ \A i \in 1..(a - 1) : text[i] \in LocalChars
        /\ \A i \in (a + 1)..(d - 1) : text[i] \in DomainChars
        /\ \A i \in (d + 1)..Len(text) : text[i] \in TailChars

\* validate_email: re.match of the pattern, whose $ also matches before a
\* newline that ends the text.
validate_email(email) ==
    \/ MatchesPattern(email)
    \/ /\ Len(email) >= 1
       /\ email[Len(email)] = 10    \* "\n"
       /\ MatchesPattern(SubSeq(email, 1, Len(email) - 1))

\* str.split(","): the pieces between the commas (44), empty ones included.
RECURSIVE Split(_)
Split(text) ==
    IF \A i \in 1..Len(text) : text[i] # 44
    THEN <<text>>
    ELSE LET c == CHOOSE i \in 1..Len(text) :
                      text[i] = 44 /\ \A j \in 1..(i - 1) : text[j] # 44
         IN  <<SubSeq(text, 1, c - 1)>> \o Split(SubSeq(text, c + 1, Len(text)))

\* str.strip(): the text without the white space at its two ends.
RECURSIVE Strip(_)
Strip(text) ==
    IF text = <<>> THEN text
    ELSE IF Head(text) \in Whitespace THEN Strip(Tail(text))
    ELSE IF text[Len(text)] \in Whitespace
    THEN Strip(SubSeq(text, 1, Len(text) - 1))
    ELSE text

\* load_authorized_emails: the stripped, non-empty pieces of the variable.
load_authorized_emails(env) ==
    LET pieces == Split(env)
        kept == SelectSeq(pieces, LAMBDA piece : Strip(piece) # <<>>)
    IN  [i \in 1..Len(kept) |-> Strip(kept[i])]

\* "email not in authorized_emails".
InList(email, list) == \E i \in 1..Len(list) : list[i] = email

\* ---- the Firebase directory ----
\* auth.get_user_by_email: the accounts with that e-mail (none: the call
\* raises UserNotFoundError).
get_user_by_email(directory, email) == {u \in directory : u.email = email}

\* auth.create_user: the directory with the new account, or the directory
\* as it was when the e-mail is taken (EmailAlreadyExistsError).
create_user(directory, email, password, display_name) ==
    IF get_user_by_email(directory, email) # {} THEN directory
    ELSE directory \cup {[email |-> email, password |-> password,
                          display_name |-> display_name]}

\* The mutant of the sign-up: the list of authorized e-mails not consulted.
signup_open(directory, name, email, password, confirm_password, authorized_emails) ==
    IF ~validate_email(email) THEN directory
    ELSE IF password # confirm_password THEN directory
    ELSE IF validate_password(password) # <<>> THEN directory
    ELSE create_user(directory, email, password, name)

\* signup: the directory after the call; the session state is not touched.
signup(directory, name, email, password, confirm_password, authorized_emails) ==
    IF ~InList(email, authorized_emails) THEN directory
    ELSE IF ~validate_email(email) THEN directory
    ELSE IF password # confirm_password THEN directory
    ELSE IF validate_password(password) # <<>> THEN directory
    ELSE create_user(directory, email, password, name)

\* auth.update_user(uid, password=...): the account of that uid with the
\* new password.
update_user(directory, user, password) ==
    {IF u = user THEN [u EXCEPT !.password = password] ELSE u : u \in directory}

\* update_password: the directory after the call. Nothing changes when the
\* two passwords differ, when the new one breaks a rule, or when no account
\* has the e-mail (UserNotFoundError).
update_password(directory, email, new_password, confirm_new_password) ==
    IF new_password # confirm_new_password THEN directory
    ELSE IF validate_password(new_password) # <<>> THEN directory
    ELSE IF get_user_by_email(directory, email) = {} THEN directory
    ELSE update_user(directory,
                     CHOOSE u \in get_user_by_email(directory, email) : TRUE,
                     new_password)

\* ---- st.session_state ----
EmptySession ==
    [logged_in |-> None, user_email |-> None, history |-> None,
     docs_text |-> None, client_docs_text |-> None]

\* initialize_session_state: the missing keys get their first value.
initialize_session_state(ss) ==
    [logged_in |-> IF ss.logged_in = None THEN Some(FALSE) ELSE ss.logged_in,
     user_email |-> IF ss.logged_in = None THEN Some(None) ELSE ss.user_email,
     history |-> IF ss.history = None THEN Some(<<>>) ELSE ss.history,
     docs_text |-> IF ss.docs_text = None THEN Some(<<>>) ELSE ss.docs_text,
     client_docs_text |->
         IF ss.client_docs_text = None THEN Some(<<>>) ELSE ss.client_docs_text]

\* The mutant of the login: the password compared with the stored one.
login_checksPassword(ss, directory, email, password) ==
    IF \E user \in get_user_by_email(directory, email) :
           user.email = email /\ user.password = password
    THEN [ss EXCEPT !.logged_in = Some(TRUE), !.user_email = Some(Some(email))]
    ELSE ss

\* login: the session state after the call. The lookup raises when no
\* account has the e-mail, and the except clause leaves the state alone;
\* the password takes no part.
login(ss, directory, email, password) ==
    IF \E user \in get_user_by_email(directory, email) : user.email = email
    THEN [ss EXCEPT !.logged_in = Some(TRUE), !.user_email = Some(Some(email))]
    ELSE ss

\* The mutant of logout: the conversation and the client documents are
\* dropped with the identity.
logout_clearsSession(ss) ==
    [ss EXCEPT !.logged_in = Some(FALSE), !.user_email = Some(None),
               !.history = Some(<<>>), !.client_docs_text = Some(<<>>)]

\* The mutant of the logout: the e-mail of the session kept.
logout_keepsEmail(ss) == [ss EXCEPT !.logged_in = Some(FALSE)]

\* logout: the session state after the call.
logout(ss) == [ss EXCEPT !.logged_in = Some(FALSE), !.user_email = Some(None)]

\* The value of a key of the session state that is set.
LoggedIn(ss) == ss.logged_in = Some(TRUE)
LoggedInAs(ss, email) == LoggedIn(ss) /\ ss.user_email = Some(Some(email))

\* ---- inputs of the application ----
MaxOps == 4

\* a@b.c, z@b.c, a@b (no dot after the @) and q@b.c.
EmailA == <<97, 64, 98, 46, 99>>
EmailZ == <<122, 64, 98, 46, 99>>
EmailNoDot == <<97, 64, 98>>
EmailQ == <<113, 64, 98, 46, 99>>
Emails == {EmailA, EmailZ, EmailNoDot, EmailQ}

\* AUTHORIZED_EMAILS = "a@b.c, z@b.c\f,\u1680,a@b\u3000", or not set.
AuthorizedEnv ==
    EmailA \o <<44, 32>> \o EmailZ \o <<12, 44, 5760, 44>> \o EmailNoDot
        \o <<12288>>
Environs == {AuthorizedEnv, <<>>}

\* Abcdefg1 and Zbcdefg1 keep the four rules; Abcdef1 is short, abcdefg1
\* has no capital, ABCDEFG1 no small letter, Abcdefgh no digit.
PasswordGood == <<65, 98, 99, 100, 101, 102, 103, 49>>
PasswordOther == <<90, 98, 99, 100, 101, 102, 103, 49>>
PasswordShort == <<65, 98, 99, 100, 101, 102, 49>>
PasswordNoUpper == <<97, 98, 99, 100, 101, 102, 103, 49>>
PasswordNoLower == <<65, 66, 67, 68, 69, 70, 71, 49>>
PasswordNoDigit == <<65, 98, 99, 100, 101, 102, 103, 104>>
Passwords == {PasswordGood, PasswordOther, PasswordShort, PasswordNoUpper,
              PasswordNoLower, PasswordNoDigit}
LoginPasswords == {PasswordGood, PasswordOther}

\* The password and its confirmation as typed in the sign-up form.
PasswordPairs ==
    {<<pw, pw>> : pw \in Passwords} \cup {<<PasswordGood, PasswordOther>>}

DisplayName == <<78>>

Account(email, password) ==
    [email |-> email, password |-> password, display_name |-> DisplayName]

\* The directory when the application starts: empty, or holding two accounts.
Directories == {{}, {Account(EmailA, PasswordGood), Account(EmailZ, PasswordGood)}}

\* ---- documents, uploads and questions ----
\* 5 Mo, the largest file sent to Textract.
MaxUploadBytes == 5242880

\* The texts process_file can return or meet, as sequences of characters.
\* The warning of process_file for a file of more than 5 Mo, 83 characters:
\* the warning sign U+26A0 and its variation selector U+FE0F, a space, "Le
\* fichier est trop volumineux. Veuillez televerser un fichier de moins de
\* 5 Mo." with its two e acute (233).
TooLargeWarning ==
    <<9888, 65039, 32, 76, 101, 32, 102, 105, 99, 104, 105, 101, 114, 32,
      101, 115, 116, 32, 116, 114, 111, 112, 32, 118, 111, 108, 117, 109,
      105, 110, 101, 117, 120, 46, 32, 86, 101, 117, 105, 108, 108, 101,
      122, 32, 116, 233, 108, 233, 118, 101, 114, 115, 101, 114, 32, 117,
      110, 32, 102, 105, 99, 104, 105, 101, 114, 32, 100, 101, 32, 109, 111,
      105, 110, 115, 32, 100, 101, 32, 53, 32, 77, 111, 46>>

\* "Erreur lors de l'extraction du texte avec Textract : boom" (the text
\* extract_text_with_textract returns when Textract raised "boom").
TextractError ==
    <<69, 114, 114, 101, 117, 114, 32, 108, 111, 114, 115, 32, 100, 101,
      32, 108, 39, 101, 120, 116, 114, 97, 99, 116, 105, 111, 110, 32,
      100, 117, 32, 116, 101, 120, 116, 101, 32, 97, 118, 101, 99, 32,
      84, 101, 120, 116, 114, 97, 99, 116, 32, 58, 32, 98, 111, 111,
      109>>

\* "releve d'information" and "Avis: Erreur de date" (two texts read by
\* Textract, the second of a document that holds the word).
PlainText ==
    <<114, 101, 108, 101, 118, 101, 32, 100, 39, 105, 110, 102, 111, 114,
      109, 97, 116, 105, 111, 110>>
NoticeText ==
    <<65, 118, 105, 115, 58, 32, 69, 114, 114, 101, 117, 114, 32, 100,
      101, 32, 100, 97, 116, 101>>

\* "Erreur" and the text of str(None).
Erreur == <<69, 114, 114, 101, 117, 114>>
NoneText == <<78, 111, 110, 101>>

\* 'if "Erreur" in extracted_text': the word at some place of the text.
ContainsErreur(text) ==
    \E i \in 1..(Len(text) - Len(Erreur) + 1) :
        SubSeq(text, i, i + Len(Erreur) - 1) = Erreur

\* process_file up to the size check: the warning for a file of more than
\* 5 Mo, which is not sent to Textract.
TooLarge(file_bytes) == file_bytes > MaxUploadBytes

\* process_file after extract_text_with_textract: None when the text holds
\* "Erreur", the text otherwise.
Extracted(text) == IF ContainsErreur(text) THEN None ELSE Some(text)

\* The mutant of executor.map: the results in the reverse of the order the
\* files were submitted in.
ExtractedTexts_reversed(threads) ==
    [i \in 1..Len(threads) |-> threads[Len(threads) + 1 - i].result]

\* list(executor.map(process_file, uploaded_files)): the results in the
\* order the files were submitted in.
ExtractedTexts(threads) == [i \in 1..Len(threads) |-> threads[i].result]

\* f"{extracted_text}" inside the appended segment.
Formatted(extracted_text) ==
    IF extracted_text = None THEN NoneText ELSE Get(extracted_text)

\* The loop "client_docs_text += ..." over the extracted texts.
RECURSIVE AppendSegments(_, _)
AppendSegments(client_docs_text, extracted_texts) ==
    IF extracted_texts = <<>> THEN client_docs_text
    ELSE AppendSegments(Append(client_docs_text, Formatted(Head(extracted_texts))),
                        Tail(extracted_texts))

\* load_documents: the documents of the Drive folders, fetched while
\* docs_text is empty and stored when something was found.
load_documents(ss, drive_text) ==
    IF ss.docs_text = Some(<<>>) /\ drive_text # <<>>
    THEN [ss EXCEPT !.docs_text = Some(drive_text)]
    ELSE ss

\* query_gemini_with_history: the answer of the model to the question, or
\* the text of the exception it raised.
query_gemini_with_history(docs_text, client_docs_text, user_question, hist, raises) ==
    IF raises THEN <<"Erreur lors de l'interrogation de Gemini", user_question>>
    ELSE <<"reponse", user_question>>

\* The mutant of the history: the new interaction put last.
Inserted_last(hist, user_question, response) ==
    Append(hist, [question |-> user_question, response |-> response])

\* history.insert(0, {"question": ..., "response": ...}).
Inserted(hist, user_question, response) ==
    <<[question |-> user_question, response |-> response]>> \o hist

\* ---- inputs of the assistant ----
MaxRuns == 3
MaxFiles == 2

FileOk == [name |-> "ri.pdf", size |-> MaxUploadBytes, text |-> PlainText]
FileBig == [name |-> "scan.pdf", size |-> MaxUploadBytes + 1, text |-> PlainText]
FileBad == [name |-> "flou.png", size |-> 1, text |-> TextractError]
FileNotice == [name |-> "avis.pdf", size |-> 1, text |-> NoticeText]
Files == {FileOk, FileBig, FileBad, FileNotice}

\* The lists of at most n files, no file twice in a list.
RECURSIVE FileLists(_)
FileLists(n) ==
    IF n = 0 THEN {<<>>}
    ELSE LET shorter == FileLists(n - 1)
             longest == {g \in shorter : Len(g) = n - 1}
         IN  shorter \cup
                UNION {{Append(fl, f) :
                           f \in {g \in Files : \A i \in 1..Len(fl) : fl[i] # g}} :
                       fl \in longest}

DriveTexts == {<<>>, <<"conditions de souscription">>}

NoPrompt == [docs_text |-> <<>>, client_docs_text |-> <<>>,
             user_question |-> <<>>, history |-> <<>>]

NoCall == [op |-> "none"]

IdleApp ==
    /\ session_state = EmptySession
    /\ users = {}
    /\ environ = <<>>
    /\ opCount = 0
    /\ mainpc = "idle"
    /\ uploaded_files = <<>>
    /\ workers = <<>>
    /\ prompted = NoPrompt
    /\ last_call = NoCall

IdleStale == now = [day |-> ClockStart, hour |-> 0] /\ calls = <<>>

\* The history holds a partially responsible claim.
HoldsPartial(h) ==
    \E i \in 1..Len(h) : \E j \in 1..Len(h[i].claims) :
        h[i].claims[j].responsibility = "Partial"

\* The history spans the years after which the maximal bonus is announced.
HoldsLongRun(h, ref) ==
    ref - Get(h[1].subscriptionDate) >= MaxBonusYearsQuoted * PeriodMonths

\* The two readings of the majoration are told apart on the histories that
\* hold a partially responsible claim, the two readings of the years to the
\* maximal bonus on the histories that span 13 years.
Init ==
    /\ \E inp \in Inputs :
          /\ history = inp.history
          /\ referenceDate = inp.ref
          /\ reading \in
                [partial : IF HoldsPartial(inp.history) THEN PartialFactors
                           ELSE {PartialFactor},
                 maxBonus : IF inp.history # <<>>
                               /\ inp.history[1].subscriptionDate # None
                               /\ HoldsLongRun(inp.history, inp.ref)
                            THEN {MaxBonusYearsQuoted, MaxBonusYears}
                            ELSE {MaxBonusYears}]
    /\ pc = "start"
    /\ recIdx = 0
    /\ queue = <<>>
    /\ state = NoState
    /\ starts = <<>>
    /\ done = <<>>
    /\ trace = <<>>
    /\ result = NoResult
    /\ IdleStale
    /\ IdleApp

\* RecordNormalizer: a typed error ends the invocation before any period.
Validate ==
    /\ pc = "start"
    /\ LET e == Normalize(history) IN
         IF e.error # NoError
         THEN /\ pc' = "error"
              /\ result' = ErrorResult(e)
              /\ UNCHANGED <<recIdx, state>>
         ELSE /\ pc' = "edition"
              /\ recIdx' = 1
              /\ state' = InitialState(Records)
              /\ UNCHANGED result
    /\ UNCHANGED <<history, referenceDate, queue, starts, done, trace>>
    /\ UNCHANGED <<staleVars, appVars, reading>>

\* "Verification de la date d'edition du releve d'information", before each
\* calculation. For a RI out of date the instructions give two actions:
\* to answer that the RI is out of date and ask for a recent one, the next
\* step being for the RI up to date only ("sinon, passez a l'etape
\* suivante"), or to calculate all the same and communicate the CRM with a
\* warning ("si le releve d'information n'est pas a jour ... le calcul du
\* CRM pourrait etre errone"). Either may be followed.
CheckEdition ==
    /\ pc = "edition"
    /\ \/ /\ pc' = "segment"
          /\ UNCHANGED result
       \/ /\ Staleness(referenceDate,
                       Get(Records[Len(Records)].editionDate)) = "Stale"
          /\ pc' = "stopped"
          /\ result' = [kind |-> "outdated", staleness |-> "Stale"]
    /\ UNCHANGED <<history, referenceDate, recIdx, queue, state, starts, done,
                   trace>>
    /\ UNCHANGED <<staleVars, appVars, reading>>

\* PeriodSegmenter and ClaimAssigner for the current record.
Segment ==
    /\ pc = "segment"
    /\ queue' = WithCarried(Periods(Records, recIdx, referenceDate),
                             Carried(Records, recIdx, referenceDate))
    /\ pc' = "walk"
    /\ UNCHANGED <<history, referenceDate, recIdx, state, starts, done,
                   trace, result>>
    /\ UNCHANGED <<staleVars, appVars, reading>>

\* The mutant of the engine step: the last state of the trace overwritten.
Assess_inPlace ==
    /\ pc = "walk"
    /\ queue # <<>>
    /\ state' = ProcessPeriod(state, Head(queue))
    /\ starts' = Append(starts, state)
    /\ done' = Append(done, Head(queue))
    /\ trace' = IF trace = <<>> THEN <<state'>>
                ELSE [trace EXCEPT ![Len(trace)] = state']
    /\ queue' = Tail(queue)
    /\ UNCHANGED <<history, referenceDate, pc, recIdx, result>>
    /\ UNCHANGED <<staleVars, appVars, reading>>

\* CoefficientEngine: one assessment period, one state appended to the trace.
Assess ==
    /\ pc = "walk"
    /\ queue # <<>>
    /\ state' = ProcessPeriod(state, Head(queue))
    /\ starts' = Append(starts, state)
    /\ done' = Append(done, Head(queue))
    /\ trace' = Append(trace, state')
    /\ queue' = Tail(queue)
    /\ UNCHANGED <<history, referenceDate, pc, recIdx, result>>
    /\ UNCHANGED <<staleVars, appVars, reading>>

\* The end of a record that is not the last: its coefficient seeds the next.
NextRecord ==
    /\ pc = "walk"
    /\ queue = <<>>
    /\ recIdx < Len(history)
    /\ state' = SeedNext(state, RecordEnd(Records, recIdx, referenceDate),
                         Records[recIdx + 1])
    /\ recIdx' = recIdx + 1
    /\ pc' = "segment"
    /\ UNCHANGED <<history, referenceDate, queue, starts, done, trace,
                   result>>
    /\ UNCHANGED <<staleVars, appVars, reading>>

\* ResultReporter, after the last record.
Finish ==
    /\ pc = "walk"
    /\ queue = <<>>
    /\ recIdx = Len(history)
    /\ result' = Report(Records, referenceDate, trace)
    /\ pc' = "done"
    /\ UNCHANGED <<history, referenceDate, recIdx, queue, state, starts,
                   done, trace>>
    /\ UNCHANGED <<staleVars, appVars, reading>>

Next == Validate \/ CheckEdition \/ Segment \/ Assess \/ NextRecord \/ Finish

Spec == Init /\ [][Next]_vars

(***************************************************************************)
(* The freshness check on its own: calls spread over the passing days.     *)
(***************************************************************************)
IdleEngine ==
    /\ history = <<>>
    /\ referenceDate = 0
    /\ reading = [partial |-> PartialFactor, maxBonus |-> MaxBonusYears]
    /\ pc = "idle"
    /\ recIdx = 0
    /\ queue = <<>>
    /\ state = NoState
    /\ starts = <<>>
    /\ done = <<>>
    /\ trace = <<>>
    /\ result = NoResult

InitFreshness == InitStale /\ IdleEngine /\ IdleApp

NextFreshness ==
    \/ Tick /\ UNCHANGED <<engineVars, appVars>>
    \/ CallUpdate /\ UNCHANGED <<engineVars, appVars>>

SpecFreshness == InitFreshness /\ [][NextFreshness]_vars

(***************************************************************************)
(* The accounts and the session: any sequence of initialize_session_state, *)
(* login, logout, signup and update_password calls.                        *)
(***************************************************************************)
InitAuth ==
    /\ session_state = EmptySession
    /\ users \in Directories
    /\ environ \in Environs
    /\ opCount = 0
    /\ mainpc = "idle"
    /\ uploaded_files = <<>>
    /\ workers = <<>>
    /\ prompted = NoPrompt
    /\ last_call = NoCall
    /\ IdleStale
    /\ IdleEngine

authFrame == <<environ, mainpc, uploaded_files, workers, prompted>>

InitializeSession ==
    /\ opCount < MaxOps
    /\ opCount' = opCount + 1
    /\ session_state' = initialize_session_state(session_state)
    /\ last_call' = [op |-> "initialize_session_state"]
    /\ UNCHANGED <<users, authFrame, staleVars, engineVars>>

Login(email, password) ==
    /\ opCount < MaxOps
    /\ opCount' = opCount + 1
    /\ session_state' = login(session_state, users, email, password)
    /\ last_call' = [op |-> "login", email |-> email, password |-> password]
    /\ UNCHANGED <<users, authFrame, staleVars, engineVars>>

Logout ==
    /\ opCount < MaxOps
    /\ opCount' = opCount + 1
    /\ session_state' = logout(session_state)
    /\ last_call' = [op |-> "logout"]
    /\ UNCHANGED <<users, authFrame, staleVars, engineVars>>

Signup(email, password, confirm_password) ==
    /\ opCount < MaxOps
    /\ opCount' = opCount + 1
    /\ users' = signup(users, DisplayName, email, password, confirm_password,
                       load_authorized_emails(environ))
    /\ last_call' = [op |-> "signup", email |-> email, password |-> password,
                     confirm_password |-> confirm_password]
    /\ UNCHANGED <<session_state, authFrame, staleVars, engineVars>>

UpdatePassword(email, new_password, confirm_new_password) ==
    /\ opCount < MaxOps
    /\ opCount' = opCount + 1
    /\ users' = update_password(users, email, new_password, confirm_new_password)
    /\ last_call' = [op |-> "update_password", email |-> email,
                     password |-> new_password,
                     confirm_password |-> confirm_new_password]
    /\ UNCHANGED <<session_state, authFrame, staleVars, engineVars>>

SomeLogin == \E email \in Emails, password \in LoginPasswords : Login(email, password)
SomeSignup == \E email \in Emails, pair \in PasswordPairs : Signup(email, pair[1], pair[2])

SomeUpdate ==
    \E email \in Emails, pair \in PasswordPairs :
        UpdatePassword(email, pair[1], pair[2])

NextAuth == InitializeSession \/ SomeLogin \/ Logout \/ SomeSignup \/ SomeUpdate

SpecAuth == InitAuth /\ [][NextAuth]_vars

(***************************************************************************)
(* The assistant: the runs of main() for one session. Every interaction    *)
(* of the user starts a run of the script, which goes through the          *)
(* connexion tab or the logout button, the loading of the documents, the   *)
(* parallel processing of the uploaded files and the question.             *)
(***************************************************************************)
\* A session not started yet, the session A has just logged in to, and
\* the session of A once the documents are loaded, one file uploaded and a
\* first question (numbered 0) answered.
SessionOfA ==
    [logged_in |-> Some(TRUE), user_email |-> Some(Some(EmailA)),
     history |-> Some(<<>>), docs_text |-> Some(<<>>),
     client_docs_text |-> Some(<<>>)]

SessionOfAWithFile ==
    [SessionOfA EXCEPT !.docs_text = Some(<<"conditions de souscription">>),
                       !.client_docs_text = Some(<<PlainText>>),
                       !.history = Some(<<[question |-> 0,
                                           response |-> <<"reponse", 0>>]>>)]

InitAssistant ==
    /\ \/ session_state \in {EmptySession, SessionOfA} /\ uploaded_files = <<>>
       \/ session_state = SessionOfAWithFile /\ uploaded_files = <<FileOk>>
    /\ users = {Account(EmailA, PasswordGood), Account(EmailZ, PasswordGood)}
    /\ environ = AuthorizedEnv
    /\ opCount = 0
    /\ mainpc = "idle"
    /\ workers = <<>>
    /\ prompted = NoPrompt
    /\ last_call = NoCall
    /\ IdleStale
    /\ IdleEngine

\* What the user can do to start a run.
Interactions ==
    {[op |-> "login", email |-> e, password |-> PasswordOther] : e \in {EmailA, EmailZ, EmailQ}}
    \cup {[op |-> "logout"]}
    \cup {[op |-> "ask", user_question |-> q, raises |-> b] :
              q \in 1..MaxRuns, b \in BOOLEAN}
    \cup {[op |-> "upload", files |-> fl] : fl \in FileLists(MaxFiles) \ {<<>>}}

\* main() starts: initialize_session_state, then the widgets of the page
\* the session is shown. The file uploader belongs to the page of a logged
\* in session: it holds no file when the connexion page was the one shown.
StartRun(call) ==
    /\ mainpc = "idle"
    /\ opCount < MaxRuns
    /\ opCount' = opCount + 1
    /\ last_call' = call
    /\ LET ss == initialize_session_state(session_state) IN
         /\ session_state' = ss
         /\ IF LoggedIn(ss) THEN call.op \in {"logout", "ask", "upload"}
            ELSE call.op = "login"
         /\ mainpc' = IF LoggedIn(ss) THEN "bienvenue" ELSE "connexion"
    /\ call.op = "ask" => call.user_question = opCount + 1
    /\ call.op = "upload" => uploaded_files = <<>>
    /\ uploaded_files' =
          IF call.op = "upload" THEN call.files
          ELSE IF LoggedIn(initialize_session_state(session_state))
               THEN uploaded_files
               ELSE <<>>
    /\ UNCHANGED <<users, environ, workers, prompted, staleVars, engineVars>>

\* "if st.button('Se connecter'): login(email, password)", then the test
\* of logged_in that opens the rest of the page.
Connexion ==
    /\ mainpc = "connexion"
    /\ session_state' = login(session_state, users, last_call.email, last_call.password)
    /\ mainpc' = IF LoggedIn(session_state') THEN "load" ELSE "idle"
    /\ UNCHANGED <<users, environ, opCount, uploaded_files, workers, prompted,
                   last_call, staleVars, engineVars>>

\* "if st.button('Se deconnecter'): logout()"; the page goes on.
Bienvenue ==
    /\ mainpc = "bienvenue"
    /\ session_state' = IF last_call.op = "logout" THEN logout(session_state)
                        ELSE session_state
    /\ mainpc' = "load"
    /\ UNCHANGED <<users, environ, opCount, uploaded_files, workers, prompted,
                   last_call, staleVars, engineVars>>

\* load_documents, then the executor started on the uploaded files.
LoadDocuments ==
    /\ mainpc = "load"
    /\ \E drive_text \in DriveTexts :
          session_state' = load_documents(session_state, drive_text)
    /\ IF uploaded_files # <<>>
       THEN /\ workers' = [i \in 1..Len(uploaded_files) |->
                              [pc |-> "submitted", result |-> None, finished |-> 0]]
            /\ mainpc' = "map"
       ELSE /\ workers' = workers
            /\ mainpc' = "question"
    /\ UNCHANGED <<users, environ, opCount, uploaded_files, prompted,
                   last_call, staleVars, engineVars>>

\* The place a worker that returns now takes in the order of completion.
Finishing(threads) ==
    1 + Cardinality({k \in 1..Len(threads) : threads[k].pc = "done"})

\* A worker thread in process_file: the file read and its size checked.
WorkerRead(i) ==
    /\ mainpc = "map"
    /\ workers[i].pc = "submitted"
    /\ workers' = [workers EXCEPT ![i] =
                      IF TooLarge(uploaded_files[i].size)
                      THEN [pc |-> "done", result |-> Some(TooLargeWarning),
                            finished |-> Finishing(workers)]
                      ELSE [pc |-> "textract", result |-> None, finished |-> 0]]
    /\ UNCHANGED <<session_state, users, environ, opCount, mainpc,
                   uploaded_files, prompted, last_call, staleVars, engineVars>>

\* A worker thread back from extract_text_with_textract.
WorkerExtract(i) ==
    /\ mainpc = "map"
    /\ workers[i].pc = "textract"
    /\ workers' = [workers EXCEPT ![i] =
                      [pc |-> "done", result |-> Extracted(uploaded_files[i].text),
                       finished |-> Finishing(workers)]]
    /\ UNCHANGED <<session_state, users, environ, opCount, mainpc,
                   uploaded_files, prompted, last_call, staleVars, engineVars>>

\* The script thread once every worker has returned: the extracted texts
\* appended to client_docs_text in the order of the files.
Collect ==
    /\ mainpc = "map"
    /\ \A i \in 1..Len(workers) : workers[i].pc = "done"
    /\ session_state' =
          [session_state EXCEPT !.client_docs_text =
              Some(AppendSegments(Get(session_state.client_docs_text),
                                  ExtractedTexts(workers)))]
    /\ mainpc' = "question"
    /\ UNCHANGED <<users, environ, opCount, uploaded_files, workers, prompted,
                   last_call, staleVars, engineVars>>

\* "if st.button('Envoyer la question')": the model asked with the history
\* as it is, then the interaction put at the head of the history.
Question ==
    /\ mainpc = "question"
    /\ IF last_call.op = "ask"
       THEN LET ss == session_state
                response == query_gemini_with_history(
                                Get(ss.docs_text), Get(ss.client_docs_text),
                                last_call.user_question, Get(ss.history),
                                last_call.raises)
            IN  /\ prompted' = [docs_text |-> Get(ss.docs_text),
                                client_docs_text |-> Get(ss.client_docs_text),
                                user_question |-> last_call.user_question,
                                history |-> Get(ss.history)]
                /\ session_state' =
                      [ss EXCEPT !.history =
                          Some(Inserted(Get(ss.history), last_call.user_question,
                                        response))]
       ELSE UNCHANGED <<prompted, session_state>>
    /\ mainpc' = "idle"
    /\ workers' = <<>>
    /\ UNCHANGED <<users, environ, opCount, uploaded_files,
                   last_call, staleVars, engineVars>>

SomeRun == \E call \in Interactions : StartRun(call)
SomeWorker == \E i \in 1..Len(workers) : WorkerRead(i) \/ WorkerExtract(i)

NextAssistant ==
    SomeRun \/ Connexion \/ Bienvenue \/ LoadDocuments \/ SomeWorker
        \/ Collect \/ Question

SpecAssistant == InitAssistant /\ [][NextAssistant]_vars

(***************************************************************************)
(* Properties.                                                             *)
(***************************************************************************)
N == Len(trace)

HasResponsible(claims) ==
    \E i \in 1..Len(claims) : claims[i].responsibility \in Responsible

ClaimFree(period) == ~HasResponsible(period.claims)

\* A value times a factor in thousandths, to the nearest hundredth.
Times(value, factor) == ((value * factor + 5000) \div 10000) * 10

\* C1: clamp invariant. Every state appended to the trace has its value in
\* the closed range 0.50 .. 3.50, whatever the claims and the starting value.
C1_ClampInvariant ==
    \A i \in 1..Len(trace) :
        /\ trace[i].value >= 500
        /\ trace[i].value <= 3500

\* A period whose majorations carried the value above 3.50 ended at 3.50.
C1_Witness ==
    /\ N >= 1
    /\ HasResponsible(done[N].claims)
    /\ starts[N].value * 1250 > 3500 * 1000
    /\ ~starts[N].franchiseAvailable
    /\ trace[N].value = 3500

\* The two consecutive periods of the rapid-descent law: the periods n-1 and
\* n hold no responsible claim and both started above 1.00.
TwoClaimFreeAboveBase(n) ==
    /\ n >= 2
    /\ n <= Len(trace)
    /\ ClaimFree(done[n - 1])
    /\ ClaimFree(done[n])
    /\ starts[n - 1].value > 1000
    /\ starts[n].value > 1000

\* C2 as stated: after two consecutive periods without Full or Partial
\* claim, both started above 1.00, the value is exactly 1.00 and
\* consecutiveClaimFreeYears is 0.
C2_RapidDescentAsStated ==
    \A n \in 1..Len(trace) :
        TwoClaimFreeAboveBase(n) =>
            /\ trace[n].value = 1000
            /\ trace[n].consecutiveClaimFreeYears = 0

\* The two years of the rapid descent: the periods n-1 and n hold no
\* responsible claim, both started above 1.00, both lasted twelve months and
\* the second began when the first ended.
TwoYearsAboveBase(n) ==
    /\ TwoClaimFreeAboveBase(n)
    /\ done[n - 1].durationMonths = 12
    /\ done[n].durationMonths = 12
    /\ done[n].start = done[n - 1].end

\* C2: rapid-descent law. After two consecutive periods of twelve months
\* each, the second beginning when the first ends, that hold no Full or
\* Partial claim and both started above 1.00, the value is exactly 1.00 and
\* consecutiveClaimFreeYears is 0, whatever the value after the first of the
\* two (1.66 ends at 1.00).
C2_RapidDescent ==
    \A n \in 1..Len(trace) :
        TwoYearsAboveBase(n) =>
            /\ trace[n].value = 1000
            /\ trace[n].consecutiveClaimFreeYears = 0

\* Two years in a row without responsible claim from 1.66: 1.58 after the
\* first, 1.00 after the second.
C2_Witness ==
    /\ TwoYearsAboveBase(N)
    /\ starts[N - 1].value = 1660
    /\ starts[N].value = 1580
    /\ trace[N].value = 1000
    /\ trace[N].consecutiveClaimFreeYears = 0

\* Periods offered to an engine state for the monotonicity comparison: up to
\* two responsible claims, or a non-responsible one, in an annual period or
\* in a final partial period of 9 or 10 months.
ProbeClaims ==
    SeqsUpTo({Claim(0, r) : r \in Responsible}, 2) \cup {<<Claim(0, "NoResp")>>}

ProbePeriod(claims, final, months) ==
    [start |-> 0, end |-> months, claims |-> claims,
     isFinalPartialPeriod |-> final, durationMonths |-> months]

ProbeKinds == {<<FALSE, 12>>, <<TRUE, 9>>, <<TRUE, 10>>}

InsertAt(q, i, x) == SubSeq(q, 1, i - 1) \o <<x>> \o SubSeq(q, i, Len(q))

\* C3: monotonic-claim property. From any engine state, a period processed
\* with one more Full or Partial claim (at any place among its claims) never
\* ends lower than the same period without it. (No exception is needed: a
\* claim consumed by the franchise leaves the value where the claim-free
\* period would at best have left it.)
C3_MonotonicClaim ==
    pc = "walk" =>
        \A q \in ProbeClaims, kind \in ProbeKinds :
            LET without == ProcessPeriod(state, ProbePeriod(q, kind[1], kind[2])).value
            IN  \A r \in Responsible, i \in 1..(Len(q) + 1) :
                    ProcessPeriod(state,
                        ProbePeriod(InsertAt(q, i, Claim(0, r)), kind[1], kind[2])).value
                    >= without

\* The comparison is made from a state a rapid descent is about to apply
\* to, and the added claim matters.
C3_Witness ==
    /\ pc = "walk"
    /\ state.value > BaseCoefficient
    /\ state.consecutiveClaimFreeYears >= 1
    /\ ProcessPeriod(state, ProbePeriod(<<Claim(0, "Full")>>, FALSE, 12)).value
       > ProcessPeriod(state, ProbePeriod(<<>>, FALSE, 12)).value

\* C4 as stated, on the freshness check: two calls given the same edition
\* date and the same coefficient return the same result, whenever they are
\* made.
C4_DeterminismAsStated ==
    \A i \in 1..Len(calls), j \in 1..Len(calls) :
        (calls[i].ri_date = calls[j].ri_date
            /\ calls[i].crm_value = calls[j].crm_value)
        => calls[i].out = calls[j].out

\* Whole days from the edition date to the day of the call.
DaysSince(c) == c.at.day - ToOrdinal(c.ri_date)

ValidDate(dt) == dt \in EditionDates \ {Date(29, 2, 2023), Date(31, 4, 2024)}

\* C5: staleness boundary. A call reports the RI out of date exactly when
\* more than 90 days separate the day of the call from the edition date:
\* edited on 01/01/2024, it is up to date on 31/03/2024 (90 days, at any
\* hour) and out of date on 01/04/2024 (91 days).
C5_StalenessBoundary ==
    \A i \in 1..Len(calls) :
        LET c == calls[i] IN
        /\ ValidDate(c.ri_date) =>
              /\ c.out.status \in {"stale", "fresh"}
              /\ (c.out.status = "stale") <=> (DaysSince(c) > 90)
        /\ (c.ri_date = Date(1, 1, 2024) /\ c.at.day = 738976)
              => c.out.status = "fresh"
        /\ (c.ri_date = Date(1, 1, 2024) /\ c.at.day = 738977)
              => c.out.status = "stale"

\* Both sides of the boundary were exercised: a call at exactly 90 days, late
\* in the day, answered up to date, and a call at 91 days answered out of date.
C5_Witness ==
    /\ \E i \in 1..Len(calls) :
          /\ ValidDate(calls[i].ri_date)
          /\ DaysSince(calls[i]) = 90
          /\ calls[i].at.hour = 23
          /\ calls[i].out.status = "fresh"
    /\ \E i \in 1..Len(calls) :
          /\ ValidDate(calls[i].ri_date)
          /\ DaysSince(calls[i]) = 91
          /\ calls[i].out.status = "stale"

\* A finished invocation on a single record.
Finished == pc = "done"
Single1 == Len(history) = 1
Rec1 == history[1]

\* The scenario record: start 1.00 (no stated coefficient), terminated after
\* the given number of months, with the given claims.
Scenario(months, claims) ==
    /\ Finished
    /\ Single1
    /\ Rec1.statedCoefficient = None
    /\ Rec1.subscriptionDate = Some(0)
    /\ Rec1.terminationDate = Some(months)
    /\ Rec1.claims = claims

\* The period n completes the second claim-free year of a client who was
\* above 1.00 when the first began: the rapid descent is due.
DescentDue(n) ==
    /\ ClaimFree(done[n])
    /\ done[n].durationMonths = 12
    /\ starts[n].consecutiveClaimFreeYears >= 1
    /\ starts[n].valueAtRunStart > 1000

\* The period n completes the year without responsible claim at which the
\* invocation reads the maximal bonus (the 13th or the 14th).
BonusDue(n) ==
    /\ ClaimFree(done[n])
    /\ done[n].durationMonths = 12
    /\ ~DescentDue(n)
    /\ starts[n].consecutiveClaimFreeYears + 1 >= reading.maxBonus

\* C6: reduction eligibility of a terminated final period. A final partial
\* period without responsible claim keeps the value it started from when it
\* lasted fewer than 10 months and gets the 5 % reduction when it lasted 10
\* months or more (a rapid descent to 1.00 and the year that brings the
\* maximal bonus apart); from 1.00 with no claims,
\* termination after 9 months gives 1.00 and after 10 months gives 0.95.
C6_ReductionEligibility ==
    /\ \A n \in 1..Len(trace) :
          (done[n].isFinalPartialPeriod /\ ClaimFree(done[n])) =>
              LET kept == IF done[n].durationMonths >= 10
                          THEN Max(Times(starts[n].value, 950), 500)
                          ELSE starts[n].value
              IN  IF DescentDue(n) THEN trace[n].value = 1000
                  ELSE IF BonusDue(n) THEN trace[n].value = 500
                  ELSE trace[n].value = kept
    /\ Scenario(9, <<>>) => result.coefficientAtTermination = Some(1000)
    /\ Scenario(10, <<>>) => result.coefficientAtTermination = Some(950)

\* The 9-month scenario ended without reduction.
C6_Witness ==
    /\ Scenario(9, <<>>)
    /\ done[1].isFinalPartialPeriod
    /\ done[1].durationMonths = 9
    /\ result.coefficientAtTermination = Some(1000)

\* The claims of a period that are Full or Partial.
ResponsibleOf(claims) ==
    SelectSeq(claims, LAMBDA c : c.responsibility \in Responsible)

\* C7: a responsible claim cancels the annual reduction. A period holding a
\* Full or Partial claim ends with consecutiveClaimFreeYears = 0 and not
\* below the value it started from; when its only responsible claim is a
\* Full one not covered by the franchise it ends at the start value x 1.25
\* (rounded to two decimals, capped at 3.50) whatever its length; from 1.00, one
\* Full claim and termination after 9 months give 1.25.
C7_ClaimCancelsReduction ==
    /\ \A n \in 1..Len(trace) :
          HasResponsible(done[n].claims) =>
              /\ trace[n].consecutiveClaimFreeYears = 0
              /\ trace[n].value >= starts[n].value
              /\ (/\ Len(ResponsibleOf(done[n].claims)) = 1
                  /\ ResponsibleOf(done[n].claims)[1].responsibility = "Full"
                  /\ ~starts[n].franchiseAvailable)
                 => trace[n].value = Min(Times(starts[n].value, 1250), 3500)
    /\ Scenario(9, <<Claim(8, "Full")>>)
          => result.coefficientAtTermination = Some(1250)

\* The 9-month scenario with one Full claim ended at 1.25.
C7_Witness ==
    /\ Scenario(9, <<Claim(8, "Full")>>)
    /\ done[1].durationMonths = 9
    /\ HasResponsible(done[1].claims)
    /\ result.coefficientAtTermination = Some(1250)

\* C8 as stated: partial-claim scenario. From 1.00, one Partial claim and
\* termination after 10 months give 1.125: the 12.5 % majoration applied,
\* and no reduction although the period is long enough to earn one.
C8_PartialScenarioAsStated ==
    Scenario(10, <<Claim(8, "Partial")>>)
        => /\ result.coefficientAtTermination = Some(1125)
           /\ trace[1].consecutiveClaimFreeYears = 0

LastRecord == Records[Len(Records)]

\* C9: the two headline values. coefficientAtTermination is None exactly when
\* the last record has no termination date; otherwise it is the value of the
\* trace state dated at that termination, and the result carries it next to
\* coefficientAtReference, the value held at the reference date.
C9_HeadlineValues ==
    Finished =>
        /\ (result.coefficientAtTermination = None)
              <=> (LastRecord.terminationDate = None)
        /\ LastRecord.terminationDate # None =>
              /\ \E i \in 1..Len(trace) :
                    trace[i].asOfDate = Get(LastRecord.terminationDate)
              /\ \A i \in 1..Len(trace) :
                    trace[i].asOfDate = Get(LastRecord.terminationDate)
                    => result.coefficientAtTermination = Some(trace[i].value)
        /\ result.coefficientAtReference \in 500..3500

\* A record looked at on its first annual due date, before its termination:
\* 0.95 at the reference date, 0.90 at the termination ten months later.
C9_Witness ==
    /\ Finished
    /\ LastRecord.terminationDate # None
    /\ referenceDate < Get(LastRecord.terminationDate)
    /\ result.coefficientAtTermination = Some(900)
    /\ result.coefficientAtReference = 950

MissingDate(rec) == rec.subscriptionDate = None \/ rec.editionDate = None

Unspecified(rec) ==
    \E i \in 1..Len(rec.claims) : rec.claims[i].responsibility = "Unspecified"

MissingFact == \E i \in 1..Len(history) : MissingDate(history[i]) \/ Unspecified(history[i])

\* C10: missing mandatory facts are never guessed. An input in which a record
\* lacks its subscription or edition date, or a claim its responsibility,
\* never gets a period assessed nor a coefficient reported: the invocation
\* ends in MissingRequiredDateError or AmbiguousResponsibilityError naming a
\* record that has that defect.
C10_NoGuess ==
    MissingFact =>
        /\ pc \in {"start", "error"}
        /\ trace = <<>>
        /\ pc = "error" =>
              /\ result.kind = "error"
              /\ result.record \in 1..Len(history)
              /\ \/ /\ result.error = "MissingRequiredDateError"
                    /\ MissingDate(history[result.record])
                 \/ /\ result.error = "AmbiguousResponsibilityError"
                    /\ Unspecified(history[result.record])

\* An input whose second record has a claim without responsibility ended in
\* AmbiguousResponsibilityError naming that record.
C10_Witness ==
    /\ pc = "error"
    /\ Unspecified(history[2])
    /\ ~MissingDate(history[2])
    /\ result.error = "AmbiguousResponsibilityError"
    /\ result.record = 2

\* A record whose termination date is not strictly after its subscription.
TerminationDefect(rec) ==
    /\ rec.subscriptionDate # None
    /\ rec.terminationDate # None
    /\ Get(rec.terminationDate) <= Get(rec.subscriptionDate)

HasTerminationDefect == \E i \in 1..Len(history) : TerminationDefect(history[i])

\* A history supplied with a record that starts before its predecessor.
OutOfOrder ==
    \E i \in 2..Len(history) :
        /\ history[i].subscriptionDate # None
        /\ history[i - 1].subscriptionDate # None
        /\ Get(history[i].subscriptionDate) < Get(history[i - 1].subscriptionDate)

\* C11 as stated: every input with a termination not strictly after the
\* subscription, or with records not supplied oldest first, is rejected with
\* InvalidDateOrderError before any period is computed.
C11_DateOrderAsStated ==
    ((HasTerminationDefect \/ OutOfOrder) /\ ~MissingFact) =>
        /\ pc \in {"start", "error"}
        /\ trace = <<>>
        /\ pc = "error" => result.error = "InvalidDateOrderError"

\* The date a record was last known at: its termination or, without one, its
\* edition.
LastKnown(rec) ==
    IF rec.terminationDate # None THEN Get(rec.terminationDate)
    ELSE Get(rec.editionDate)

\* The supplied record i comes before the supplied record j, oldest
\* subscription first (supplied order between equal subscriptions).
Older(i, j) ==
    \/ Get(history[i].subscriptionDate) < Get(history[j].subscriptionDate)
    \/ /\ Get(history[i].subscriptionDate) = Get(history[j].subscriptionDate)
       /\ i < j

\* The supplied record j is subscribed before the record just older than it
\* was terminated or last known.
TooEarly(j) ==
    \E i \in 1..Len(history) :
        /\ Older(i, j)
        /\ ~\E k \in 1..Len(history) : Older(i, k) /\ Older(k, j)
        /\ Get(history[j].subscriptionDate) < LastKnown(history[i])

\* A history, every date of which is given, that is not chronologically
\* consistent.
Overlap ==
    /\ \A i \in 1..Len(history) : ~MissingDate(history[i])
    /\ \E j \in 1..Len(history) : TooEarly(j)

\* C11 (amended): a record is accepted only if its termination date, when
\* present, is strictly after its subscription date, and a history is
\* accepted only if none of its records is subscribed before the record
\* just older than it was terminated or last known; every other input, a
\* termination on the subscription date included, is rejected with
\* InvalidDateOrderError naming an offending record, before any period is
\* computed. The order the records are supplied in is no ground for
\* rejection: they are put oldest subscription first and their periods are
\* computed in that order.
C11_DateOrder ==
    /\ pc \notin {"start", "error"} =>
          /\ \A i \in 1..Len(history) : ~TerminationDefect(history[i])
          /\ ~Overlap
    /\ ((HasTerminationDefect \/ Overlap) /\ ~MissingFact) =>
          /\ pc \in {"start", "error"}
          /\ trace = <<>>
          /\ pc = "error" =>
                /\ result.error = "InvalidDateOrderError"
                /\ IF HasTerminationDefect
                   THEN TerminationDefect(history[result.record])
                   ELSE TooEarly(result.record)
    /\ (pc = "error" /\ result.error = "InvalidDateOrderError")
          => (HasTerminationDefect \/ Overlap)
    /\ (OutOfOrder /\ ~HasTerminationDefect /\ ~Overlap /\ ~MissingFact) =>
          /\ pc # "error"
          /\ \A n \in 2..Len(done) : done[n - 1].start < done[n].start
          /\ Len(done) >= 1 =>
                \A i \in 1..Len(history) :
                    done[1].start <= Get(history[i].subscriptionDate)

\* Records supplied newest first were computed oldest first, to the end.
C11_Witness ==
    /\ OutOfOrder
    /\ ~Overlap
    /\ pc = "done"
    /\ Len(trace) = 2
    /\ done[1].start = Get(history[2].subscriptionDate)
    /\ done[2].start = Get(history[1].subscriptionDate)

\* C12 as stated: flags never block the computation. A structurally valid
\* input is never refused nor stopped short of its periods, and its result
\* carries the whole trace and the coefficients whether the RI is Stale or
\* Fresh and the coefficient Suspicious or not.
C12_FlagsNeverBlockAsStated ==
    /\ Normalize(history).error = NoError => pc \notin {"error", "stopped"}
    /\ Finished =>
          /\ result.trace = trace
          /\ result.coefficientAtReference \in 500..3500
          /\ result.staleness \in {"Stale", "Fresh"}
          /\ result.consistency \in {"Suspicious", "Ok"}

\* The reduction of 5 %, rounded and kept in range, taken k times.
RECURSIVE Reduced(_, _)
Reduced(value, k) ==
    IF k <= 0 THEN value ELSE Reduced(Max(Times(value, 950), 500), k - 1)

\* Months of licence of the primary driver at the reference date.
LicenceMonths == referenceDate - LastRecord.licenseDate

\* The states of the trace dated at or before the reference date, and the
\* latest of them.
Before == {i \in 1..Len(trace) : trace[i].asOfDate <= referenceDate}
Held == CHOOSE i \in Before : \A j \in Before : j <= i

\* The months uninsured between the state held at the reference date and
\* that date, or the start of the period that follows it if that is sooner.
UninsuredSinceHeld ==
    IF Held = Len(trace) THEN referenceDate - trace[Held].asOfDate
    ELSE Min(referenceDate, done[Held + 1].start) - trace[Held].asOfDate

\* C13: consistency check. The result is Suspicious exactly when the primary
\* driver has held a licence for fewer than 3 years at the reference date and
\* the resulting coefficient is outside 0.90 .. 3.50; the coefficient
\* reported is the computed one all the same, the value the trace holds at
\* the reference date, never 0.90 put in its place.
C13_ConsistencyCheck ==
    Finished =>
        /\ (result.consistency = "Suspicious")
              <=> /\ LicenceMonths < 36
                  /\ (result.coefficientAtReference < 900
                      \/ result.coefficientAtReference > 3500)
        /\ result.consistency \in {"Suspicious", "Ok"}
        /\ result.trace = trace
        /\ (Before # {} /\ UninsuredSinceHeld < 36) =>
              result.coefficientAtReference = trace[Held].value
        /\ LastRecord.terminationDate # None =>
              \E i \in 1..Len(trace) :
                  /\ trace[i].asOfDate = Get(LastRecord.terminationDate)
                  /\ result.coefficientAtTermination = Some(trace[i].value)

\* A driver licensed for 35 months with a computed 0.50: flagged, and 0.50
\* reported.
C13_Witness ==
    /\ Finished
    /\ LicenceMonths = 35
    /\ result.consistency = "Suspicious"
    /\ Before # {}
    /\ trace[Held].value = 500
    /\ result.coefficientAtReference = 500

\* The values of a trace, in order.
Values(tr) == [i \in 1..Len(tr) |-> tr[i].value]

WorkedValues == <<1250, 1560, 1480, 1850, 1760, 1000, 1000>>

\* C14: the worked example of the instructions. Contract started 20/06/2017
\* at 1.00 with the six claims of the example: the CRM at the end of the six
\* annual periods is 1.25, 1.56, 1.48, 1.85, 1.76 and 1.00 (rapid descent in
\* the sixth), and still 1.00 at the termination of 10/10/2023.
C14_WorkedExample ==
    history = WorkedExample.history =>
        /\ Values(trace) = SubSeq(WorkedValues, 1, Len(trace))
        /\ Finished =>
              /\ Len(trace) = 7
              /\ trace[6].consecutiveClaimFreeYears = 0
              /\ result.coefficientAtTermination = Some(1000)

\* The example was computed to its end: seven periods, the last one the
\* months from 20/06/2023 to the termination.
C14_Witness ==
    /\ history = WorkedExample.history
    /\ Finished
    /\ Values(trace) = WorkedValues
    /\ done[7].isFinalPartialPeriod
    /\ done[7].durationMonths = 3

\* A value majorated k times by 25 %, each product to the nearest hundredth.
RECURSIVE Times25(_, _)
Times25(value, k) ==
    IF k <= 0 THEN value ELSE Times25(Times(value, 1250), k - 1)

\* The responsible claims of a period are all Full ones.
OnlyFull(period) ==
    /\ HasResponsible(period.claims)
    /\ \A i \in 1..Len(period.claims) : period.claims[i].responsibility # "Partial"

\* C15: franchise consumption. In a period started with the franchise, the
\* first Full claim leaves the value unchanged and clears the franchise, and
\* every further Full claim multiplies the value by 1.25; in a period
\* started without the franchise every Full claim multiplies it by 1.25. The
\* franchise is not available at the end of either.
C15_FranchiseConsumption ==
    \A n \in 1..Len(trace) :
        OnlyFull(done[n]) =>
            LET k == Len(ResponsibleOf(done[n].claims))
                majorated == IF starts[n].franchiseAvailable THEN k - 1 ELSE k
            IN  /\ trace[n].value = Min(Times25(starts[n].value, majorated), 3500)
                /\ ~trace[n].franchiseAvailable

\* A Full claim in the year after the franchise was earned at 0.50 is
\* exempt and consumes it; a Full claim in the following year gives 0.63.
C15_Witness ==
    /\ Len(trace) >= 5
    /\ starts[4].franchiseAvailable
    /\ starts[4].value = 500
    /\ Len(done[4].claims) = 1
    /\ OnlyFull(done[4])
    /\ trace[4].value = 500
    /\ ~starts[5].franchiseAvailable
    /\ OnlyFull(done[5])
    /\ trace[5].value = 630

\* The only responsible claim of the period is a Partial one.
OnePartial(period) ==
    /\ Len(ResponsibleOf(period.claims)) = 1
    /\ ResponsibleOf(period.claims)[1].responsibility = "Partial"

\* C16 as stated: a Partial claim always multiplies the value by 1.125, cut
\* to two decimals, also when the franchise is available, and leaves
\* franchiseAvailable as it was.
C16_PartialAsStated ==
    \A n \in 1..Len(trace) :
        OnePartial(done[n]) =>
            /\ trace[n].value
                  = Min(((starts[n].value * 1125) \div 10000) * 10, 3500)
            /\ trace[n].franchiseAvailable = starts[n].franchiseAvailable

\* The periods n-2, n-1 and n hold no responsible claim and all end at 0.50.
ThreeYearsAtFloor(n) ==
    /\ n >= 3
    /\ n <= Len(trace)
    /\ \A m \in (n - 2)..n : ClaimFree(done[m]) /\ trace[m].value = 500

\* C17 as stated: franchise acquisition. The franchise is not available in
\* the initial state; it is available at the end of a period only if three
\* consecutive periods without responsible claim have ended at 0.50, with no
\* responsible claim since; it is available at the end of the third such
\* period; and after a period with a responsible claim it is not available
\* before three further periods have passed.
C17_FranchiseAcquisitionAsStated ==
    /\ Len(starts) >= 1 => ~starts[1].franchiseAvailable
    /\ \A n \in 1..Len(trace) :
          /\ trace[n].franchiseAvailable =>
                \E m \in 3..n :
                    /\ ThreeYearsAtFloor(m)
                    /\ \A j \in (m + 1)..n : ClaimFree(done[j])
          /\ ThreeYearsAtFloor(n) => trace[n].franchiseAvailable
          /\ HasResponsible(done[n].claims) =>
                \A j \in n..Min(n + 2, Len(trace)) : ~trace[j].franchiseAvailable

\* Period m is a year spent at 0.50: twelve months without responsible
\* claim, begun and ended at 0.50.
FloorYear(m) ==
    /\ m >= 1
    /\ m <= Len(trace)
    /\ ClaimFree(done[m])
    /\ done[m].durationMonths = 12
    /\ starts[m].value = 500
    /\ trace[m].value = 500

\* C17 (amended): franchise acquisition. The franchise is not available in
\* the initial state; it is available at the end of a period only if three
\* years have been spent at 0.50 (periods of twelve months without
\* responsible claim, begun and ended at 0.50) with no responsible claim
\* from the first of them on; it is available at the end of the third of
\* three such years in a row; and after a period with a responsible claim
\* it is not available before three further periods have passed. The year
\* in which 0.50 is reached and a last period of less than twelve months
\* are not years at 0.50.
C17_FranchiseAcquisition ==
    /\ Len(starts) >= 1 => ~starts[1].franchiseAvailable
    /\ \A n \in 1..Len(trace) :
          /\ trace[n].franchiseAvailable =>
                \E a, b, c \in 1..n :
                    /\ a < b
                    /\ b < c
                    /\ FloorYear(a) /\ FloorYear(b) /\ FloorYear(c)
                    /\ \A j \in a..n : ClaimFree(done[j])
          /\ (FloorYear(n - 2) /\ FloorYear(n - 1) /\ FloorYear(n))
                => trace[n].franchiseAvailable
          /\ HasResponsible(done[n].claims) =>
                \A j \in n..Min(n + 2, Len(trace)) : ~trace[j].franchiseAvailable

\* The franchise earned at the end of the third year at 0.50, used up by a
\* claim in the fourth and earned again at the end of the seventh.
C17_Witness ==
    /\ Len(trace) >= 7
    /\ ~trace[2].franchiseAvailable
    /\ trace[3].franchiseAvailable
    /\ HasResponsible(done[4].claims)
    /\ trace[4].value = 500
    /\ ~trace[6].franchiseAvailable
    /\ trace[7].franchiseAvailable

\* In a history of two records: the subscription of the second, the place
\* in the walk of its first period, the months uninsured between the
\* termination of the first record and that subscription (none when the
\* first record bears no termination), the coefficient the first record
\* ended with, and whether the first period of the second has been walked.
SecondStart == Get(Records[2].subscriptionDate)
SecondFirst ==
    Cardinality({n \in 1..Len(done) : done[n].start < SecondStart}) + 1
Interruption ==
    IF Records[1].terminationDate # None
    THEN SecondStart - Get(Records[1].terminationDate)
    ELSE 0
EndOfFirst ==
    IF SecondFirst = 1 THEN InitialState(Records).value
    ELSE trace[SecondFirst - 1].value
SecondSeeded ==
    /\ Len(history) = 2
    /\ Len(starts) >= SecondFirst

\* C18: bonus-interruption reset and continuity. The coefficient seeding the
\* first period of the second record is 1.00 when the gap since the end of
\* the first record is 3 years or more and the coefficient at the end of the
\* first record was below 1.00; in every other case it is exactly the
\* coefficient at the end of the first record.
C18_InterruptionReset ==
    SecondSeeded =>
        /\ done[SecondFirst].start = SecondStart
        /\ starts[SecondFirst].value =
              IF Interruption >= 36 /\ EndOfFirst < 1000
              THEN 1000
              ELSE EndOfFirst

\* A bonus of 0.50 lost after an interruption of exactly 3 years.
C18_Witness ==
    /\ SecondSeeded
    /\ Interruption = 36
    /\ SecondFirst >= 2
    /\ EndOfFirst = 500
    /\ starts[SecondFirst].value = 1000

\* The record the n-th processed period belongs to: the latest subscribed at
\* or before the period's start.
RecordOf(n) ==
    CHOOSE r \in 1..Len(Records) :
        /\ Get(Records[r].subscriptionDate) <= done[n].start
        /\ \A q \in 1..Len(Records) :
              Get(Records[q].subscriptionDate) <= done[n].start
                  => Get(Records[q].subscriptionDate)
                         <= Get(Records[r].subscriptionDate)

\* The claim is among those assessed in the period.
Assessed(c, period) == \E j \in 1..Len(period.claims) : period.claims[j] = c

\* C19 as stated: a claim dated within the last two months before a period's
\* end, wherever that end falls, is not assessed in that period; a claim
\* dated earlier in the period is assessed in it.
C19_ClaimDeferralAsStated ==
    \A n \in 1..Len(done) :
        LET rec == Records[RecordOf(n)] IN
        \A i \in 1..Len(rec.claims) :
            LET c == rec.claims[i] IN
            (done[n].start <= c.date /\ c.date < done[n].end) =>
                IF c.date >= done[n].end - DeferralMonths
                THEN ~Assessed(c, done[n])
                ELSE Assessed(c, done[n])

\* C19 (amended): claim deferral. A claim dated in a period less than two
\* months before the end of its twelve months, the annual due date, is not
\* assessed in that period but in the following one; a claim dated earlier
\* in a period is assessed in that period, also when a termination or the
\* reference date ends the period less than two months after the claim. A
\* period started at 0.95 whose only claim is deferred ends at
\* 0.95 x 0.95 = 0.90.
C19_ClaimDeferral ==
    \A n \in 1..Len(done) :
        LET rec == Records[RecordOf(n)] IN
        /\ \A i \in 1..Len(rec.claims) :
              LET c == rec.claims[i] IN
              (done[n].start <= c.date /\ c.date < done[n].end) =>
                  IF c.date >= done[n].start + PeriodMonths - DeferralMonths
                  THEN /\ ~Assessed(c, done[n])
                       /\ n < Len(done) => Assessed(c, done[n + 1])
                  ELSE Assessed(c, done[n])
        /\ (/\ starts[n].value = 950
            /\ done[n].durationMonths = 12
            /\ done[n].claims = <<>>
            /\ \E i \in 1..Len(rec.claims) :
                  /\ rec.claims[i].responsibility \in Responsible
                  /\ rec.claims[i].date >= done[n].start + 10
                  /\ rec.claims[i].date < done[n].end)
              => trace[n].value = 900

\* The example of the prompt: CRM 0.95, a responsible claim in the eleventh
\* month, 0.90 at the end of the year and 1.13 at the end of the next.
C19_Witness ==
    /\ Len(trace) >= 2
    /\ Records[1].claims = <<Claim(10, "Full")>>
    /\ starts[1].value = 950
    /\ done[1].claims = <<>>
    /\ trace[1].value = 900
    /\ done[2].claims = <<Claim(10, "Full")>>
    /\ trace[2].value = 1130

\* How many times the claim occurs in a list of claims.
Count(claims, c) == Cardinality({j \in 1..Len(claims) : claims[j] = c})

\* How many times the claim has been assessed in the first n periods walked.
RECURSIVE AssessedTimes(_, _)
AssessedTimes(c, n) ==
    IF n = 0 THEN 0 ELSE AssessedTimes(c, n - 1) + Count(done[n].claims, c)

\* The claims of the r-th record dated within its lifespan.
InLifespan(r) ==
    SelectSeq(Records[r].claims,
        LAMBDA c : /\ Get(Records[r].subscriptionDate) <= c.date
                   /\ c.date < RecordEnd(Records, r, referenceDate))

\* How many times the claim is recorded, within their lifespan, by the first
\* r records.
RECURSIVE RecordedTimes(_, _)
RecordedTimes(c, r) ==
    IF r = 0 THEN 0 ELSE RecordedTimes(c, r - 1) + Count(InLifespan(r), c)

\* Every claim of every record.
AllClaims == UNION {{Records[r].claims[i] : i \in 1..Len(Records[r].claims)} :
                        r \in 1..Len(Records)}

\* C20 as stated: once the trace is complete every claim dated within its
\* record's lifespan has been assessed exactly once, a claim dated in the
\* last two months of the final period of its record included.
C20_NoClaimLostAsStated ==
    Finished =>
        \A c \in AllClaims :
            AssessedTimes(c, Len(done)) = RecordedTimes(c, Len(Records))

\* C20: no claim is counted twice, and none is lost while a period follows.
\* Once the trace is complete every claim dated within its record's lifespan
\* has been assessed exactly once, but for those dated less than two months
\* before the end of the last period of 12 months of the last record, which
\* no period of the trace assesses; and at no time has a claim been assessed
\* more often than it is recorded.
C20_NoClaimLost ==
    /\ Finished =>
          \A c \in AllClaims :
              AssessedTimes(c, Len(done)) =
                  RecordedTimes(c, Len(Records))
                      - Count(Pending(Records, Len(Records), referenceDate), c)
    /\ Len(done) >= 1 =>
          \A c \in AllClaims :
              AssessedTimes(c, Len(done)) <= RecordedTimes(c, Len(Records))

\* A claim near the end of the first record's last period, assessed once, in
\* the first period of the second record.
C20_Witness ==
    /\ Finished
    /\ Len(Records) = 2
    /\ Pending(Records, 1, referenceDate) # <<>>
    /\ Len(done) > SecondFirst - 1
    /\ done[SecondFirst].claims = Pending(Records, 1, referenceDate)
    /\ \A c \in AllClaims : AssessedTimes(c, Len(done)) = 1

\* A value times a factor in thousandths, cut to two decimals.
Truncated(value, factor) == ((value * factor) \div 10000) * 10

RECURSIVE Truncated25(_, _)
Truncated25(value, k) ==
    IF k <= 0 THEN value ELSE Truncated25(Truncated(value, 1250), k - 1)

\* A period without responsible claim that earns the reduction and that no
\* rapid descent ends.
PlainReduction(n) ==
    /\ ClaimFree(done[n])
    /\ done[n].durationMonths >= 10
    /\ ~DescentDue(n)

\* A period whose responsible claims are Full ones, none covered by the
\* franchise.
PlainMajoration(n) ==
    /\ OnlyFull(done[n])
    /\ ~starts[n].franchiseAvailable

\* C21 as stated: the value is cut to two decimals after every
\* multiplication, so that every value of the trace is a whole number of
\* hundredths.
C21_RoundingAsStated ==
    \A n \in 1..Len(trace) :
        /\ trace[n].value % 10 = 0
        /\ PlainReduction(n) =>
              trace[n].value = Max(Truncated(starts[n].value, 950), 500)
        /\ PlainMajoration(n) =>
              trace[n].value =
                  Min(Truncated25(starts[n].value,
                                  Len(ResponsibleOf(done[n].claims))), 3500)

LastState == trace[Len(trace)]

\* The months between the last state of the trace and the reference date.
SinceLastState == referenceDate - LastState.asOfDate

\* C22 as stated: coefficientAtReference is always the value of the last
\* state of the trace after one claim-free annual reduction per annual
\* period elapsed since that state.
C22_ProjectionAsStated ==
    (Finished /\ Len(trace) >= 1) =>
        result.coefficientAtReference =
            Reduced(LastState.value, SinceLastState \div 12)

\* C22 (amended): the coefficient at the reference date.
\* coefficientAtReference is the value the trace holds at the reference
\* date, that of its latest state dated at or before it: the time elapsed
\* after a termination is uninsured and earns no reduction (0.95 at the
\* termination is still 0.95 thirty months later). It is 1.00 when that
\* value is below 1.00 and has been left uninsured for three years or more.
\* When the reference date is the date of the last state it is the last
\* value of the trace.
C22_Projection ==
    (Finished /\ Before # {}) =>
        /\ result.coefficientAtReference =
              IF UninsuredSinceHeld >= 36 /\ trace[Held].value < 1000 THEN 1000
              ELSE trace[Held].value
        /\ referenceDate = LastState.asOfDate =>
              result.coefficientAtReference = LastState.value

\* A record ended at 0.95 two years and a half before the reference date:
\* still 0.95 at the reference date.
C22_Witness ==
    /\ Finished
    /\ Len(trace) = 1
    /\ LastState.value = 950
    /\ SinceLastState = 30
    /\ result.coefficientAtReference = 950

\* The period holds claims, none of them a responsible one.
OnlyNoResp(period) == period.claims # <<>> /\ ClaimFree(period)

\* C23: a non-responsible claim changes nothing. Every period ends in the
\* state it would have ended in without its non-responsible claims, and a
\* period whose only claims are non-responsible ones gets the annual
\* reduction (when it lasted ten months or more) and counts as a claim-free
\* year for the rapid descent (when it lasted twelve months).
C23_NoRespClaim ==
    \A n \in 1..Len(trace) :
        /\ trace[n] =
              ProcessPeriod(starts[n],
                  [done[n] EXCEPT !.claims = ResponsibleOf(done[n].claims)])
        /\ OnlyNoResp(done[n]) =>
              /\ trace[n].franchiseAvailable =
                    (starts[n].franchiseAvailable \/ trace[n].yearsAtFloor >= 3)
              /\ IF DescentDue(n)
                 THEN /\ trace[n].value = 1000
                      /\ trace[n].consecutiveClaimFreeYears = 0
                 ELSE /\ trace[n].consecutiveClaimFreeYears =
                            IF done[n].durationMonths = 12
                            THEN starts[n].consecutiveClaimFreeYears + 1
                            ELSE starts[n].consecutiveClaimFreeYears
                      /\ trace[n].value =
                            IF BonusDue(n) THEN 500
                            ELSE IF done[n].durationMonths >= 10
                            THEN Max(Times(starts[n].value, 950), 500)
                            ELSE starts[n].value

\* The years 2021-2022 and 2022-2023 of the worked example: a non-responsible
\* claim in each, 1.85 reduced to 1.76 and then brought down to 1.00.
C23_Witness ==
    /\ Len(trace) >= 6
    /\ OnlyNoResp(done[5])
    /\ starts[5].value = 1850
    /\ trace[5].value = 1760
    /\ trace[5].consecutiveClaimFreeYears = 1
    /\ OnlyNoResp(done[6])
    /\ trace[6].value = 1000

\* The processed periods of the r-th record, and the months of its
\* lifespan: to its termination or, without one, to the subscription of the
\* next record or, for the last record, to the reference date.
PeriodsOf(r) == {n \in 1..Len(done) : RecordOf(n) = r}
Lifespan(r) ==
    (IF Records[r].terminationDate # None
     THEN Get(Records[r].terminationDate)
     ELSE IF r < Len(Records) THEN Get(Records[r + 1].subscriptionDate)
     ELSE referenceDate) - Get(Records[r].subscriptionDate)

\* The periods of the r-th record are as many as its lifespan has years,
\* the year begun at a termination or at the reference date included, the
\* year begun when the next insurer takes over not; they follow each other
\* from the subscription, twelve months apart.
Tiled(r) ==
    LET ns == PeriodsOf(r)
        open == Records[r].terminationDate = None /\ r < Len(Records)
    IN  /\ \A n \in ns :
              done[n].start = Get(Records[r].subscriptionDate)
                                  + 12 * Cardinality({m \in ns : m < n})
        /\ IF open
           THEN /\ 12 * Cardinality(ns) <= Lifespan(r)
                /\ Lifespan(r) < 12 * (Cardinality(ns) + 1)
           ELSE /\ 12 * (Cardinality(ns) - 1) < Lifespan(r)
                /\ Lifespan(r) <= 12 * Cardinality(ns)

\* One state per processed period, dated at the period's end, the dates
\* strictly increasing; as many states as the records have periods once the
\* walk is over.
TraceShape ==
    /\ Len(trace) = Len(done)
    /\ \A i \in 1..Len(trace) : trace[i].asOfDate = done[i].end
    /\ \A i \in 1..Len(trace) : \A j \in 1..Len(trace) :
          i < j => trace[i].asOfDate < trace[j].asOfDate
    /\ Finished => \A r \in 1..Len(Records) : Tiled(r)

\* A step leaves the trace alone or appends to it the state of the period at
\* the head of the queue, dated at that period's end.
TraceStep ==
    \/ trace' = trace
    \/ /\ queue # <<>>
       /\ Len(trace') = Len(trace) + 1
       /\ SubSeq(trace', 1, Len(trace)) = trace
       /\ trace'[Len(trace')].asOfDate = Head(queue).end
       /\ queue' = Tail(queue)

\* C24: the trace is append-only and one-to-one with the periods. Processing
\* a period appends exactly one state dated at the period's end, the states
\* already appended are never modified, the dates increase strictly along the
\* trace, and the final trace has as many states as the history has periods.
C24_AppendOnly == [](TraceShape) /\ [][TraceStep]_vars

\* A complete trace over two records, the first without termination: its
\* completed year, then the three periods of the second record.
C24_Witness ==
    /\ Finished
    /\ Len(Records) = 2
    /\ Records[1].terminationDate = None
    /\ Cardinality(PeriodsOf(1)) = 1
    /\ Cardinality(PeriodsOf(2)) = 3
    /\ Len(trace) = 4
    /\ trace[1].asOfDate < trace[2].asOfDate
    /\ trace[2].asOfDate < trace[3].asOfDate


\* Not logged in means no e-mail in the session, and logged in means the
\* e-mail of an account.
SessionInv ==
    /\ session_state.logged_in = Some(FALSE) => session_state.user_email = Some(None)
    /\ session_state.logged_in = None => session_state.user_email = None
    /\ LoggedIn(session_state) =>
          \E u \in users : session_state.user_email = Some(Some(u.email))

\* A login that finds the account logs the session in under the e-mail it
\* was given, a login that does not leaves the session as it was, and no
\* other call logs a session in or changes the e-mail of a logged-in one.
SessionStep ==
    opCount' = opCount + 1 =>
        IF last_call'.op = "login"
        THEN IF \E u \in users : u.email = last_call'.email
             THEN LoggedInAs(session_state', last_call'.email)
             ELSE session_state' = session_state
        ELSE LoggedIn(session_state') =>
                 /\ LoggedIn(session_state)
                 /\ session_state'.user_email = session_state.user_email

\* C25: session-state invariant. After any sequence of
\* initialize_session_state, login and logout calls, logged_in = False
\* implies user_email = None and logged_in = True implies user_email is the
\* e-mail given to the most recent successful login; a login that fails
\* leaves logged_in and user_email as they were.
C25_SessionInvariant == [](SessionInv) /\ [][SessionStep]_vars

\* A failed login (no account has the e-mail) made while logged in under
\* another e-mail, which the session still holds.
C25_Witness ==
    /\ last_call.op = "login"
    /\ get_user_by_email(users, last_call.email) = {}
    /\ LoggedInAs(session_state, EmailA)
    /\ last_call.email = EmailQ

\* C26: the outcome of a login does not depend on the password. Whatever
\* password is given with the e-mail, the call ends in the same session
\* state, logged in under that e-mail exactly when an account has it.
C26_PasswordIgnored ==
    [][(last_call'.op = "login" /\ opCount' = opCount + 1) =>
          /\ \A other \in Passwords :
                login(session_state, users, last_call'.email, other)
                    = session_state'
          /\ LoggedInAs(session_state', last_call'.email)
                <=> (\E u \in users : u.email = last_call'.email)]_vars

\* A session logged in by a login whose password is not the account's.
C26_Witness ==
    /\ last_call.op = "login"
    /\ LoggedInAs(session_state, last_call.email)
    /\ \E u \in users : u.email = last_call.email /\ u.password # last_call.password

\* The e-mails the variable of the environment authorizes, the e-mails that
\* match the pattern and the passwords that keep the four rules, among
\* those typed.
AuthorizedTyped ==
    IF environ = AuthorizedEnv THEN {EmailA, EmailZ, EmailNoDot} ELSE {}
WellFormedTyped == {EmailA, EmailZ, EmailQ}
StrongTyped == {PasswordGood, PasswordOther}

SignupChecks(call) ==
    /\ call.email \in AuthorizedTyped
    /\ call.email \in WellFormedTyped
    /\ call.password = call.confirm_password
    /\ call.password \in StrongTyped

\* C27: signup gating. signup creates an account only when the e-mail is
\* authorized, matches the pattern, the password equals its confirmation and
\* keeps the four rules; when a check fails no account is created, when all
\* hold and the e-mail is free the account is created, and signup never
\* changes the session state.
C27_SignupGating ==
    [][(last_call'.op = "signup" /\ opCount' = opCount + 1) =>
          /\ session_state' = session_state
          /\ ~SignupChecks(last_call') => users' = users
          /\ users' # users =>
                users' = users \cup {Account(last_call'.email, last_call'.password)}
          /\ (SignupChecks(last_call')
              /\ \A u \in users : u.email # last_call'.email)
                => Account(last_call'.email, last_call'.password) \in users']_vars

\* An account created by a signup that passed the four checks.
C27_Witness ==
    /\ last_call.op = "signup"
    /\ SignupChecks(last_call)
    /\ Account(EmailZ, PasswordOther) \in users
    /\ last_call.email = EmailZ

\* ---- the conversation history ----
\* The history of a session, empty while the key is missing.
HistoryOf(ss) == IF ss.history = None THEN <<>> ELSE Get(ss.history)

\* The step of a run that handles a submitted question.
AsksQuestion == mainpc = "question" /\ last_call.op = "ask"

\* The entry a submitted question leaves in the history: the question with
\* the answer of the model, or with the error text when the call failed.
EntryOf(call) ==
    [question |-> call.user_question,
     response |-> IF call.raises
                  THEN <<"Erreur lors de l'interrogation de Gemini", call.user_question>>
                  ELSE <<"reponse", call.user_question>>]

\* C28: the history grows by exactly one entry per submitted question,
\* newest first. A submitted question puts its entry (the error text as the
\* response when the model call failed) at index 0 in front of the entries
\* already there, which keep their content and order; the history handed to
\* the model is the one before the insertion; and no other step of the
\* application changes the history.
C28_HistoryGrowth ==
    [][/\ AsksQuestion =>
            /\ HistoryOf(session_state') =
                  <<EntryOf(last_call)>> \o HistoryOf(session_state)
            /\ prompted'.history = HistoryOf(session_state)
            /\ prompted'.user_question = last_call.user_question
       /\ ~AsksQuestion => HistoryOf(session_state') = HistoryOf(session_state)]_vars

\* C28 witness: two questions were submitted, the later one failed, and its
\* entry with the error text stands in front of the earlier one; the model
\* was given the history holding only the earlier one.
C28_Witness ==
    /\ mainpc = "idle"
    /\ Len(HistoryOf(session_state)) = 2
    /\ HistoryOf(session_state)[1].question > HistoryOf(session_state)[2].question
    /\ HistoryOf(session_state)[1].response[1] = "Erreur lors de l'interrogation de Gemini"
    /\ HistoryOf(session_state)[2].response[1] = "reponse"
    /\ prompted.history = <<HistoryOf(session_state)[2]>>

\* ---- what a logout leaves behind ----
\* The step of a run that handles the logout button.
LogsOut == mainpc = "bienvenue" /\ last_call.op = "logout"

\* The conversation and the documents held by a session.
Kept(ss) == <<ss.history, ss.docs_text, ss.client_docs_text>>

\* C29: logout changes only logged_in and user_email and leaves the history,
\* docs_text and client_docs_text as they are; a login changes none of the
\* three either; so a question of the user who logs in next is answered
\* with the history and the client documents the session already held, and
\* the history shown is that history with the new entry in front.
C29_LogoutKeepsData ==
    [][/\ LogsOut =>
            /\ Kept(session_state') = Kept(session_state)
            /\ session_state' = [session_state EXCEPT !.logged_in = Some(FALSE),
                                                      !.user_email = Some(None)]
       /\ mainpc = "connexion" => Kept(session_state') = Kept(session_state)
       /\ AsksQuestion =>
            /\ prompted'.history = Get(session_state.history)
            /\ prompted'.client_docs_text = Get(session_state.client_docs_text)
            /\ prompted'.docs_text = Get(session_state.docs_text)]_vars

\* C29 witness: A, with a file uploaded and a question answered, logged
\* out, Z logged in and asked the third question: the model was given A's
\* question and A's file, and Z's history shows A's question under Z's own.
C29_Witness ==
    /\ mainpc = "idle"
    /\ opCount = 3
    /\ last_call.op = "ask"
    /\ LoggedInAs(session_state, EmailZ)
    /\ prompted.user_question = 3
    /\ Len(prompted.history) = 1
    /\ prompted.history[1].question = 0
    /\ PlainText \in {prompted.client_docs_text[k] :
                         k \in 1..Len(prompted.client_docs_text)}
    /\ Len(Get(session_state.history)) = 2
    /\ Get(session_state.history)[2].question = 0

\* ---- the parallel processing of the uploaded files ----
\* The client documents of a session.
ClientDocs(ss) == IF ss.client_docs_text = None THEN <<>> ELSE Get(ss.client_docs_text)

\* The segment a file leaves in client_docs_text: the warning for a file of
\* more than 5 Mo, "None" for a file whose text from Textract holds the word
\* "Erreur" (the message of a failure, or a document that has the word),
\* its text otherwise.
SegmentOf(file) ==
    IF file.size > 5 * 1024 * 1024 THEN TooLargeWarning
    ELSE IF \E i \in 1..Len(file.text) :
               /\ i + 5 <= Len(file.text)
               /\ <<file.text[i], file.text[i + 1], file.text[i + 2],
                     file.text[i + 3], file.text[i + 4], file.text[i + 5]>>
                      = <<69, 114, 114, 101, 117, 114>>
         THEN <<78, 111, 110, 101>>
    ELSE file.text

\* The segments appended by a step, none when the step cut the text.
Appended(before, after) ==
    IF Len(after) >= Len(before) /\ SubSeq(after, 1, Len(before)) = before
    THEN SubSeq(after, Len(before) + 1, Len(after))
    ELSE <<<<99, 117, 116>>>>

\* The workers are running or have all returned, and the script thread has
\* not appended yet.
Mapping == mainpc = "map"
AllReturned == \A i \in 1..Len(workers) : workers[i].pc = "done"

\* No file of more than 5 Mo is with Textract.
NoLargeExtraction ==
    \A i \in 1..Len(workers) :
        workers[i].pc = "textract" => uploaded_files[i].size <= 5 * 1024 * 1024

\* client_docs_text changes only in the step of the script thread that
\* follows the return of every worker, by one segment per file in the order
\* of the files; the steps of the workers leave the session state alone.
UploadStep ==
    /\ ClientDocs(session_state') # ClientDocs(session_state) =>
          /\ Mapping /\ AllReturned /\ mainpc' = "question"
          /\ LET new == Appended(ClientDocs(session_state), ClientDocs(session_state'))
             IN  /\ Len(new) = Len(uploaded_files)
                 /\ \A k \in 1..Len(new) : new[k] = SegmentOf(uploaded_files[k])
    /\ workers' # workers /\ Mapping => session_state' = session_state
    /\ Mapping /\ mainpc' = "question" =>
          Len(ClientDocs(session_state')) =
              Len(ClientDocs(session_state)) + Len(uploaded_files)

\* C30: whatever the interleaving and the order of completion of the worker
\* threads running process_file, client_docs_text is extended only by the
\* script thread after every worker has returned, by exactly one segment per
\* uploaded file in the order of upload; no worker writes client_docs_text;
\* and a file of more than 5 Mo is never sent to text extraction.
C30_ParallelUpload == [](NoLargeExtraction) /\ [][UploadStep]_vars

\* C30 witness: of two uploaded files the second, too large, returned first
\* and the first came back from Textract after it; the two segments were
\* appended in the order of upload, the text before the warning.
C30_Witness ==
    /\ mainpc = "question"
    /\ uploaded_files = <<FileOk, FileBig>>
    /\ Len(workers) = 2
    /\ workers[2].finished < workers[1].finished
    /\ LET docs == ClientDocs(session_state)
       IN  /\ Len(docs) >= 2
           /\ docs[Len(docs) - 1] = PlainText
           /\ docs[Len(docs)] = TooLargeWarning

====
